---- MODULE Spec2Model ----
(***************************************************************************)
(* Voice bridge between a browser client and the Ultravox speech agent.    *)
(*                                                                         *)
(* Two server programs are modelled:                                       *)
(*   "meet"   - src/AI-Meet Backend/server.js (wss.on('connection'))       *)
(*   "bridge" - src/server/server.js          (class AudioBridge)          *)
(* together with the mu-law codec tables both of them build at start-up.   *)
(*                                                                         *)
(* Node.js runs every event listener to completion, so one listener (and   *)
(* the continuation of an await up to the next await) is one action.       *)
(* The ws library is modelled by what the code relies on: readyState goes  *)
(* CONNECTING -> OPEN -> CLOSING -> CLOSED, 'close' is emitted when the    *)
(* state becomes CLOSED, 'error' is followed by 'close', close() on a      *)
(* CONNECTING socket aborts the handshake and then emits 'error' and       *)
(* 'close', and an event emitted while no listener is registered is lost.  *)
(***************************************************************************)
EXTENDS Integers, Sequences, FiniteSets, TLC

VARIABLES
  prog,      \* the server program that is running: "meet" or "bridge" ("codec": tables only)
  pc,        \* per session: where the async connection handler stands
  client,    \* per session: readyState of clientWs ("none" before it is accepted)
  uv,        \* per session: readyState of ultravoxWs ("none" while it does not exist)
  timer,     \* per session: the upstream connect timeout is pending
  handlers,  \* per session: the client listeners (message/close/error) are registered
  registry,  \* the sessions in clientToUltravox (meet) / connections (bridge)
  stats,     \* AudioBridge.stats: totalConnections, activeConnections
  sendsC,    \* per session: the calls of clientWs.send, in order, with their outcome
  sendsU,    \* per session: the calls of ultravoxWs.send, in order, with their outcome
  nC,        \* per session: number of frames that arrived from the client
  nU,        \* per session: number of frames that arrived from the upstream
  env,       \* what the environment does in this run: the clients that connect, and
             \* the number of frames the browsers and the agent deliver in total
  cop,       \* codec check: stage of the conversion
  cx,        \* codec check: the input (a byte or a 16-bit sample)
  cy,        \* codec check: the first conversion's result, per program
  cz,        \* codec check: the second conversion's result, per program
  dsp        \* signal-processing check: the function applied, its arguments and result

srvVars == <<prog, pc, client, uv, timer, handlers, registry, stats, sendsC, sendsU, nC, nU, env>>
codecVars == <<cop, cx, cy, cz, dsp>>
vars == <<prog, pc, client, uv, timer, handlers, registry, stats, sendsC, sendsU, nC, nU, env,
          cop, cx, cy, cz, dsp>>

----------------------------------------------------------------------------
(* Bit operations of JavaScript on the 32-bit integers the code uses.      *)

\* x >> n (arithmetic shift: floor division)
Shr(x, n) == x \div (2 ^ n)

\* x << n
Shl(x, n) == x * (2 ^ n)

\* x & m for a mask m of the form 2^k - 1 (0x0F, 0x07, 0xFF)
AndLow(x, m) == x % (m + 1)

\* x & 0x80
And80(x) == ((x \div 128) % 2) * 128

\* ~x
BitNot(x) == (-x) - 1

\* storing into an Int16Array / Uint8Array element
ToInt16(x) == ((x + 32768) % 65536) - 32768
ToUint8(x) == x % 256

Max(a, b) == IF a > b THEN a ELSE b
Min(a, b) == IF a < b THEN a ELSE b
Abs(x) == IF x < 0 THEN -x ELSE x

----------------------------------------------------------------------------
(* JavaScript Numbers. The resampler and the smoother compute with IEEE-754 *)
(* doubles; a finite double is s * m * 2^e with s the sign, m an integer of *)
(* 53 bits (or 0) and e the exponent. m does not fit a machine integer of   *)
(* the model checker, so it is kept as a sequence of 15-bit limbs, least    *)
(* significant first. Every operation computes the exact result and rounds  *)
(* it to the nearest double, ties to even, as the hardware does. Overflow   *)
(* and underflow of the exponent do not occur for 16-bit samples and are    *)
(* not modelled. An operation takes its operands as values: it binds them   *)
(* (x \in {operand}) before it computes with them.                          *)

LimbBase == 2 ^ 15

Limb(a, i) == IF i <= Len(a) THEN a[i] ELSE 0

\* leading zero limbs removed
RECURSIVE BigNorm(_)
BigNorm(a) ==
  IF a = <<>> THEN <<>>
  ELSE IF a[Len(a)] = 0 THEN BigNorm(SubSeq(a, 1, Len(a) - 1))
  ELSE a

RECURSIVE BigFromInt(_)
BigFromInt(n) == IF n = 0 THEN <<>> ELSE <<n % LimbBase>> \o BigFromInt(n \div LimbBase)

RECURSIVE BigToInt(_)
BigToInt(a) == IF a = <<>> THEN 0 ELSE a[1] + LimbBase * BigToInt(Tail(a))

RECURSIVE BigAddFrom(_, _, _, _)
BigAddFrom(a, b, i, carry) ==
  IF i > Len(a) /\ i > Len(b) THEN (IF carry = 0 THEN <<>> ELSE <<carry>>)
  ELSE LET t == Limb(a, i) + Limb(b, i) + carry
       IN  <<t % LimbBase>> \o BigAddFrom(a, b, i + 1, t \div LimbBase)

BigAdd(a, b) == BigAddFrom(a, b, 1, 0)

RECURSIVE BigSubFrom(_, _, _, _)
BigSubFrom(a, b, i, borrow) ==
  IF i > Len(a) THEN <<>>
  ELSE LET t == a[i] - Limb(b, i) - borrow
       IN  <<t % LimbBase>> \o BigSubFrom(a, b, i + 1, IF t < 0 THEN 1 ELSE 0)

\* a - b, for a >= b
BigSub(a, b) == BigNorm(BigSubFrom(a, b, 1, 0))

RECURSIVE BigCmpFrom(_, _, _)
BigCmpFrom(a, b, i) ==
  IF i = 0 THEN 0
  ELSE IF a[i] > b[i] THEN 1
  ELSE IF a[i] < b[i] THEN -1
  ELSE BigCmpFrom(a, b, i - 1)

\* -1, 0 or 1 as a is less than, equal to or greater than b
BigCmp(a, b) ==
  IF Len(a) > Len(b) THEN 1
  ELSE IF Len(a) < Len(b) THEN -1
  ELSE BigCmpFrom(a, b, Len(a))

RECURSIVE BigMulSmallFrom(_, _, _, _)
BigMulSmallFrom(a, k, i, carry) ==
  IF i > Len(a) THEN (IF carry = 0 THEN <<>> ELSE <<carry>>)
  ELSE LET t == a[i] * k + carry
       IN  <<t % LimbBase>> \o BigMulSmallFrom(a, k, i + 1, t \div LimbBase)

\* a * k for 0 <= k <= LimbBase
BigMulSmall(a, k) == IF k = 0 THEN <<>> ELSE BigMulSmallFrom(a, k, 1, 0)

\* a * LimbBase^n
BigShlLimbs(a, n) == IF a = <<>> \/ n = 0 THEN a ELSE [i \in 1 .. n |-> 0] \o a

RECURSIVE BigMulFrom(_, _, _)
BigMulFrom(a, b, i) ==
  IF i > Len(b) THEN <<>>
  ELSE BigAdd(BigShlLimbs(BigMulSmall(a, b[i]), i - 1), BigMulFrom(a, b, i + 1))

BigMul(a, b) == BigMulFrom(a, b, 1)

\* a * 2^bits
BigShl(a, bits) == BigShlLimbs(BigMulSmall(a, 2 ^ (bits % 15)), bits \div 15)

\* floor(a / 2^bits)
BigShr(a, bits) ==
  LET n == bits \div 15
      p == 2 ^ (bits % 15)
  IN  IF n >= Len(a) THEN <<>>
      ELSE LET d == SubSeq(a, n + 1, Len(a))
           IN  BigNorm([i \in 1 .. Len(d) |->
                          (d[i] \div p) + (Limb(d, i + 1) % p) * (LimbBase \div p)])

RECURSIVE IntBitLen(_)
IntBitLen(n) == IF n = 0 THEN 0 ELSE 1 + IntBitLen(n \div 2)

\* the number of bits of a
BigBitLen(a) == IF a = <<>> THEN 0 ELSE 15 * (Len(a) - 1) + IntBitLen(a[Len(a)])

\* bit i of a, counted from 0
BigBit(a, i) == (Limb(a, (i \div 15) + 1) \div 2 ^ (i % 15)) % 2

\* the low `bits` bits of a are all 0
BigLowZero(a, bits) == BigShl(BigShr(a, bits), bits) = a

\* the largest digit d in lo .. hi with b * d <= r
RECURSIVE BigDigit(_, _, _, _)
BigDigit(r, b, lo, hi) ==
  IF lo = hi THEN lo
  ELSE LET mid == (lo + hi + 1) \div 2
       IN  IF BigCmp(BigMulSmall(b, mid), r) <= 0
           THEN BigDigit(r, b, mid, hi)
           ELSE BigDigit(r, b, lo, mid - 1)

\* one step of the long division: the next digit d of the quotient and the
\* remainder r that is left of r1
BigDivStep(r1, b) ==
  CHOOSE step \in {[d |-> d, r |-> BigSub(r1, BigMulSmall(b, d))] :
                     d \in {BigDigit(r1, b, 0, LimbBase - 1)}} : TRUE

\* long division of a by b from limb i of a down, with the quotient q and the
\* remainder r of the limbs above
RECURSIVE BigDivFrom(_, _, _, _, _)
BigDivFrom(a, b, i, q, r) ==
  IF i = 0 THEN [q |-> BigNorm(q), r |-> r]
  ELSE CHOOSE result \in
         {BigDivFrom(a, b, i - 1, <<step.d>> \o q, step.r) :
            step \in {BigDivStep(BigNorm(<<a[i]>> \o r), b)}} : TRUE

\* quotient and remainder of a by b, b > 0
BigDivMod(a, b) == BigDivFrom(a, b, Len(a), <<>>, <<>>)

NumZero == [s |-> 1, m |-> <<>>, e |-> 0]

\* the double nearest to s * m * 2^e, ties to even
NumRound(s, mag, e) ==
  CHOOSE rounded \in
    {IF m = <<>> THEN NumZero
     ELSE LET len == BigBitLen(m)
          IN  IF len <= 53
              THEN [s |-> s, m |-> BigShl(m, 53 - len), e |-> e - (53 - len)]
              ELSE LET d    == len - 53
                       q    == BigShr(m, d)
                       half == BigBit(m, d - 1) = 1
                       rest == ~BigLowZero(m, d - 1)
                       up   == half /\ (rest \/ BigBit(q, 0) = 1)
                       q1   == IF up THEN BigAdd(q, <<1>>) ELSE q
                   IN  IF BigBitLen(q1) > 53
                       THEN [s |-> s, m |-> BigShr(q1, 1), e |-> e + d + 1]
                       ELSE [s |-> s, m |-> q1, e |-> e + d] :
     m \in {mag}} : TRUE

\* an integer as a Number
NumFromInt(n) == NumRound(IF n < 0 THEN -1 ELSE 1, BigFromInt(IF n < 0 THEN -n ELSE n), 0)

NumNeg(x) == IF x.m = <<>> THEN x ELSE [x EXCEPT !.s = -x.s]

\* x * y
NumMul(left, right) ==
  CHOOSE product \in
    {IF x.m = <<>> \/ y.m = <<>> THEN NumZero
     ELSE NumRound(x.s * y.s, BigMul(x.m, y.m), x.e + y.e) :
     x \in {left}, y \in {right}} : TRUE

\* x / y for y # 0: 65 bits of the quotient and a sticky bit for the remainder
NumDiv(left, right) ==
  CHOOSE quotient \in
    {IF x.m = <<>> THEN NumZero
     ELSE NumRound(x.s * y.s,
                   BigAdd(BigAdd(d.q, d.q), IF d.r = <<>> THEN <<>> ELSE <<1>>),
                   x.e - y.e - 65) :
     x \in {left}, y \in {right},
     d \in {IF left.m = <<>> THEN [q |-> <<>>, r |-> <<>>]
            ELSE BigDivMod(BigShl(left.m, 64), right.m)}} : TRUE

\* x + y
NumAdd(left, right) ==
  CHOOSE sum \in
    {IF x.m = <<>> THEN y
     ELSE IF y.m = <<>> THEN x
     ELSE LET e0 == IF x.e < y.e THEN x.e ELSE y.e
              ax == BigShl(x.m, x.e - e0)
              ay == BigShl(y.m, y.e - e0)
              c  == BigCmp(ax, ay)
          IN  IF x.s = y.s THEN NumRound(x.s, BigAdd(ax, ay), e0)
              ELSE IF c = 0 THEN NumZero
              ELSE IF c > 0 THEN NumRound(x.s, BigSub(ax, ay), e0)
              ELSE NumRound(y.s, BigSub(ay, ax), e0) :
     x \in {left}, y \in {right}} : TRUE

NumSub(x, y) == NumAdd(x, NumNeg(y))

\* x < y
NumLess(x, y) == \E d \in {NumSub(x, y)} : d.m # <<>> /\ d.s = -1

\* floor(m * 2^e) and ceil(m * 2^e) of a magnitude
MagFloor(m, e) == IF e >= 0 THEN BigToInt(BigShl(m, e)) ELSE BigToInt(BigShr(m, -e))
MagCeil(m, e) ==
  IF e >= 0 THEN BigToInt(BigShl(m, e))
  ELSE BigToInt(BigShr(m, -e)) + (IF BigLowZero(m, -e) THEN 0 ELSE 1)

\* Math.floor(x)
NumFloor(arg) ==
  CHOOSE n \in {IF x.s = 1 THEN MagFloor(x.m, x.e) ELSE -MagCeil(x.m, x.e) :
                 x \in {arg}} : TRUE

\* Math.round(x): floor(x + 1/2), computed exactly
MathRound(arg) ==
  CHOOSE n \in
    {IF x.m = <<>> THEN 0
     ELSE LET e0 == IF x.e < -1 THEN x.e ELSE -1
              mm == BigShl(x.m, x.e - e0)
              h  == BigShl(<<1>>, -1 - e0)
          IN  IF x.s = 1 THEN MagFloor(BigAdd(mm, h), e0)
              ELSE IF BigCmp(h, mm) >= 0 THEN MagFloor(BigSub(h, mm), e0)
              ELSE -MagCeil(BigSub(mm, h), e0) :
     x \in {arg}} : TRUE

----------------------------------------------------------------------------
(* mu-law codec: AudioBridge (src/server/server.js)                        *)

BIAS == 132
CLIP == 32635

\* AudioBridge.ulawToLinearSlow
ulawToLinearSlow(ulawByte) ==
  LET u        == AndLow(BitNot(ulawByte), 255)
      sign     == And80(u)
      exponent == AndLow(Shr(u, 4), 7)
      mantissa == AndLow(u, 15)
      sample   == Shl(Shl(mantissa, 3) + BIAS, exponent) - BIAS
  IN  IF sign # 0 THEN -sample ELSE sample

expLuts == <<16384, 8192, 4096, 2048, 1024, 512, 256>>

\* the for-of loop of linearToUlawSlow over expLuts, from position i with exponent e
RECURSIVE ExpScan(_, _, _)
ExpScan(sample, i, e) ==
  IF i > Len(expLuts) THEN e
  ELSE IF sample >= expLuts[i] THEN e
  ELSE ExpScan(sample, i + 1, e - 1)

\* AudioBridge.linearToUlawSlow (its argument is an integer here, so Math.round is the identity)
linearToUlawSlow(sample0) ==
  LET s1       == Max(-32768, Min(32767, sample0))
      sign     == And80(Shr(s1, 8))
      s2       == IF sign # 0 THEN -s1 ELSE s1
      s3       == IF s2 > CLIP THEN CLIP ELSE s2
      s4       == s3 + BIAS
      exponent == ExpScan(s4, 1, 7)
      mantissa == AndLow(Shr(s4, exponent + 3), 15)
  IN  AndLow(BitNot(sign + Shl(exponent, 4) + mantissa), 255)

\* AudioBridge.ulawToLinear: ulawToLinearTable[b], an Int16Array entry
ulawToLinear(ulawByte) == ToInt16(ulawToLinearSlow(ulawByte))

\* AudioBridge.linearToUlaw: linearToUlawTable[clamp(sample + 32768)], a Uint8Array entry
linearToUlaw(sample) ==
  LET index == Max(0, Min(65535, sample + 32768))
  IN  ToUint8(linearToUlawSlow(index - 32768))

----------------------------------------------------------------------------
(* mu-law codec: AI-Meet backend (src/AI-Meet Backend/server.js)           *)

\* mutant of ExpLoop: the loop test is absSample <= exp_lut
RECURSIVE ExpLoopInclusive(_, _, _)
ExpLoopInclusive(absSample, exp_lut, exponent) ==
  IF absSample <= exp_lut /\ exponent > 0
  THEN ExpLoopInclusive(absSample, Shr(exp_lut, 1), exponent - 1)
  ELSE exponent

\* the for loop of initPcmuEncodeTable: exp_lut halves while absSample < exp_lut and exponent > 0
RECURSIVE ExpLoop(_, _, _)
ExpLoop(absSample, exp_lut, exponent) ==
  IF absSample < exp_lut /\ exponent > 0
  THEN ExpLoop(absSample, Shr(exp_lut, 1), exponent - 1)
  ELSE exponent

\* pcmuEncodeTable[i] as initPcmuEncodeTable fills it
pcmuEncodeTable(i) ==
  LET sample   == i - 32768
      sign     == And80(Shr(sample, 8))
      a1       == IF sign # 0 THEN -sample ELSE sample
      a2       == IF a1 > CLIP THEN CLIP ELSE a1
      a3       == a2 + BIAS
      exponent == ExpLoop(a3, 16384, 7)
      mantissa == AndLow(Shr(a3, exponent + 3), 15)
      companded == BitNot(sign + Shl(exponent, 4) + mantissa)
  IN  AndLow(companded, 255)

\* pcmuDecodeTable[i] as initPcmuDecodeTable fills it
pcmuDecodeTable(i) ==
  LET v        == BitNot(i)
      sign     == And80(v)
      exponent == AndLow(Shr(v, 4), 7)
      mantissa == AndLow(v, 15)
      v1       == Shl(mantissa, exponent + 3) + BIAS
      v2       == IF exponent = 0 THEN v1 - 4 ELSE v1
  IN  ToInt16(IF sign # 0 THEN -v2 ELSE v2)

\* one sample of convertPcm16ToPcmu
meetEncode(sample) == pcmuEncodeTable(Max(0, Min(65535, sample + 32768)))

\* one byte of convertPcmuToPcm16
meetDecode(byte) == pcmuDecodeTable(byte)

----------------------------------------------------------------------------
(* Codec check: the tables applied to every byte and every 16-bit sample.  *)

Bytes   == 0 .. 255
Samples == -32768 .. 32767
Sessions == {"s1", "s2"}

NoOut == [bridge |-> 0, meet |-> 0]

\* no signal-processing function is being exercised
DspIdle == [op |-> "off"]

\* the server part of the state while only the tables are exercised
ServersIdle ==
  /\ prog = "codec"
  /\ pc = [s \in Sessions |-> "none"]
  /\ client = [s \in Sessions |-> "none"]
  /\ uv = [s \in Sessions |-> "none"]
  /\ timer = [s \in Sessions |-> FALSE]
  /\ handlers = [s \in Sessions |-> FALSE]
  /\ registry = {}
  /\ stats = [totalConnections |-> 0, activeConnections |-> 0]
  /\ sendsC = [s \in Sessions |-> <<>>]
  /\ sendsU = [s \in Sessions |-> <<>>]
  /\ nC = [s \in Sessions |-> 0]
  /\ nU = [s \in Sessions |-> 0]
  /\ env = [clients |-> {}, frames |-> 0]

CodecInit ==
  /\ ServersIdle
  /\ \/ cop = "byte" /\ cx \in Bytes
     \/ cop = "sample" /\ cx \in Samples
  /\ cy = NoOut
  /\ cz = NoOut
  /\ dsp = DspIdle

\* a PCMU byte decoded by both programs' tables
DecodeByte ==
  /\ cop = "byte"
  /\ cop' = "decoded"
  /\ cy' = [bridge |-> ulawToLinear(cx), meet |-> meetDecode(cx)]
  /\ UNCHANGED <<cx, cz, dsp>>
  /\ UNCHANGED srvVars

\* the decoded sample encoded again
EncodeDecoded ==
  /\ cop = "decoded"
  /\ cop' = "byteRoundTrip"
  /\ cz' = [bridge |-> linearToUlaw(cy.bridge), meet |-> meetEncode(cy.meet)]
  /\ UNCHANGED <<cx, cy, dsp>>
  /\ UNCHANGED srvVars

\* a PCM16 sample encoded by both programs' tables
EncodeSample ==
  /\ cop = "sample"
  /\ cop' = "encoded"
  /\ cy' = [bridge |-> linearToUlaw(cx), meet |-> meetEncode(cx)]
  /\ UNCHANGED <<cx, cz, dsp>>
  /\ UNCHANGED srvVars

\* the encoded byte decoded again
DecodeEncoded ==
  /\ cop = "encoded"
  /\ cop' = "sampleRoundTrip"
  /\ cz' = [bridge |-> ulawToLinear(cy.bridge), meet |-> meetDecode(cy.meet)]
  /\ UNCHANGED <<cx, cy, dsp>>
  /\ UNCHANGED srvVars

CodecNext == DecodeByte \/ EncodeDecoded \/ EncodeSample \/ DecodeEncoded

SpecCodec == CodecInit /\ [][CodecNext]_vars

\* the mu-law step size of the segment a sample falls in: 8 << exponent of the
\* clipped, biased magnitude
QuantStep(s) ==
  LET biased == Min(Abs(s), CLIP) + BIAS
      e == CHOOSE k \in 0 .. 7 :
             /\ biased >= Shl(128, k)
             /\ \A j \in 0 .. 7 : biased >= Shl(128, j) => j <= k
  IN  Shl(8, e)

\* a sample clipped to the magnitude the encoder keeps
Clipped(s) == IF s > CLIP THEN CLIP ELSE IF s < -CLIP THEN -CLIP ELSE s

\* C9: every byte survives decoding and re-encoding through the lookup tables,
\* linearToMuLaw(muLawToLinear(b)) = b, with the AudioBridge tables and with the
\* AI-Meet backend tables.
C9_RoundTripExact ==
  cop = "byteRoundTrip" => (cz.bridge = cx /\ cz.meet = cx)

\* C10: for every 16-bit sample the decoded value of its code differs from the
\* (clipped) sample by at most the quantisation step of the sample's segment,
\* with the AudioBridge tables and with the AI-Meet backend tables.
C10_ErrorBound ==
  cop = "sampleRoundTrip" =>
    /\ Abs(cz.bridge - Clipped(cx)) <= QuantStep(cx)
    /\ Abs(cz.meet - Clipped(cx)) <= QuantStep(cx)

\* the mu-law expansion of a byte by the reference formula:
\* v = ~b & 0xFF; ((((v & 0x0F) << 3) + 0x84) << ((v >> 4) & 7)) - 0x84, negated
\* when v & 0x80 is set
MuLawExpand(b) ==
  LET v == 255 - b
      magnitude == ((v % 16) * 8 + 132) * 2 ^ ((v \div 16) % 8) - 132
  IN  IF v >= 128 THEN -magnitude ELSE magnitude

\* C11: every entry of the decode table equals the reference expansion, lies in
\* [-32124, 32124], and the silence code 0xFF decodes to 0 - for
\* AudioBridge.ulawToLinearTable and for the AI-Meet backend pcmuDecodeTable.
C11_DecodeTableConforms ==
  cop = "decoded" =>
    /\ cy.bridge = MuLawExpand(cx)
    /\ cy.meet = MuLawExpand(cx)
    /\ cy.bridge \in -32124 .. 32124
    /\ cy.meet \in -32124 .. 32124
    /\ cx = 255 => (cy.bridge = 0 /\ cy.meet = 0)

\* the mu-law compression of a sample by the reference formula: sign from bit 15,
\* magnitude clipped to 32635 and biased by 0x84, exponent the largest e in 0..7
\* with biased >= 0x80 << e, mantissa the four bits below the leading one
MuLawCompress(sample) ==
  LET negative == sample < 0
      biased == Min(Abs(sample), 32635) + 132
      e == CHOOSE k \in 0 .. 7 :
             /\ biased >= 128 * 2 ^ k
             /\ \A j \in 0 .. 7 : biased >= 128 * 2 ^ j => j <= k
      mantissa == (biased \div 2 ^ (e + 3)) % 16
  IN  255 - ((IF negative THEN 128 ELSE 0) + 16 * e + mantissa)

\* C12: every entry of the encode table (index i = sample + 32768) equals the
\* reference compression, and the AudioBridge table and the AI-Meet backend table
\* are identical entry for entry.
C12_EncodeTableConforms ==
  cop = "encoded" =>
    /\ cy.bridge = MuLawCompress(cx)
    /\ cy.meet = MuLawCompress(cx)
    /\ cy.bridge = cy.meet

\* the largest sample, above the clip level, was encoded by both tables to 0x80
C12_Witness ==
  cop = "encoded" /\ cx = 32767 /\ cy.bridge = 128 /\ cy.meet = 128

----------------------------------------------------------------------------
(* The resampler of the AI-Meet backend (resampleAudio).                    *)

\* a clamp that takes the larger operand where the smaller one is meant
MathMinTakesLarger(a, b) ==
  CHOOSE m \in {IF NumLess(y, x) THEN x ELSE y : x \in {a}, y \in {b}} : TRUE

\* Math.min(a, b) and Math.max(a, b)
MathMin(a, b) ==
  CHOOSE m \in {IF NumLess(y, x) THEN y ELSE x : x \in {a}, y \in {b}} : TRUE
MathMax(a, b) ==
  CHOOSE m \in {IF NumLess(x, y) THEN y ELSE x : x \in {a}, y \in {b}} : TRUE

\* a ratio taken the wrong way round
resampleRatioInverted(inputSampleRate, outputSampleRate) ==
  NumDiv(NumFromInt(outputSampleRate), NumFromInt(inputSampleRate))

\* const ratio = inputSampleRate / outputSampleRate
resampleRatio(inputSampleRate, outputSampleRate) ==
  NumDiv(NumFromInt(inputSampleRate), NumFromInt(outputSampleRate))

\* const outputLength = Math.floor(inputSamples.length / ratio)
resampleLength(n, inputSampleRate, outputSampleRate) ==
  NumFloor(NumDiv(NumFromInt(n), resampleRatio(inputSampleRate, outputSampleRate)))

\* a loop body that writes 0 where the input has no right neighbour
resampleSampleDropsLast(inputSamples, ratio, i) ==
  CHOOSE outputSample \in
    {IF index + 1 < Len(inputSamples)
     THEN LET fraction == NumSub(inputIndex, NumFromInt(index))
              sample1  == inputSamples[index + 1]
              sample2  == inputSamples[index + 2]
              interpolated ==
                NumAdd(NumFromInt(sample1),
                       NumMul(NumFromInt(sample2 - sample1), fraction))
          IN  MathRound(MathMax(NumFromInt(-32768),
                                MathMin(NumFromInt(32767), interpolated)))
     ELSE 0 :
     inputIndex \in {NumMul(NumFromInt(i), ratio)},
     index \in {NumFloor(NumMul(NumFromInt(i), ratio))}} : TRUE

\* a loop body that cuts the interpolated value off instead of rounding it
resampleSampleTruncates(inputSamples, ratio, i) ==
  CHOOSE outputSample \in
    {IF index + 1 < Len(inputSamples)
     THEN LET fraction == NumSub(inputIndex, NumFromInt(index))
              sample1  == inputSamples[index + 1]
              sample2  == inputSamples[index + 2]
              interpolated ==
                NumAdd(NumFromInt(sample1),
                       NumMul(NumFromInt(sample2 - sample1), fraction))
          IN  NumFloor(MathMax(NumFromInt(-32768),
                               MathMin(NumFromInt(32767), interpolated)))
     ELSE IF index < Len(inputSamples) THEN inputSamples[index + 1] ELSE 0 :
     inputIndex \in {NumMul(NumFromInt(i), ratio)},
     index \in {NumFloor(NumMul(NumFromInt(i), ratio))}} : TRUE

\* a loop body that starts the interpolation from the right neighbour
resampleSampleFromNext(inputSamples, ratio, i) ==
  CHOOSE outputSample \in
    {IF index + 1 < Len(inputSamples)
     THEN LET fraction == NumSub(inputIndex, NumFromInt(index))
              sample1  == inputSamples[index + 2]
              sample2  == inputSamples[index + 1]
              interpolated ==
                NumAdd(NumFromInt(sample1),
                       NumMul(NumFromInt(sample2 - sample1), fraction))
          IN  MathRound(MathMax(NumFromInt(-32768),
                                MathMin(NumFromInt(32767), interpolated)))
     ELSE IF index < Len(inputSamples) THEN inputSamples[index + 1] ELSE 0 :
     inputIndex \in {NumMul(NumFromInt(i), ratio)},
     index \in {NumFloor(NumMul(NumFromInt(i), ratio))}} : TRUE

\* outputSamples[i], i counted from 0; inputSamples[k] is inputSamples[k + 1] here
resampleSample(inputSamples, ratio, i) ==
  CHOOSE outputSample \in
    {IF index + 1 < Len(inputSamples)
     THEN LET fraction == NumSub(inputIndex, NumFromInt(index))
              sample1  == inputSamples[index + 1]
              sample2  == inputSamples[index + 2]
              interpolated ==
                NumAdd(NumFromInt(sample1),
                       NumMul(NumFromInt(sample2 - sample1), fraction))
          IN  MathRound(MathMax(NumFromInt(-32768),
                                MathMin(NumFromInt(32767), interpolated)))
     ELSE IF index < Len(inputSamples) THEN inputSamples[index + 1] ELSE 0 :
     inputIndex \in {NumMul(NumFromInt(i), ratio)},
     index \in {NumFloor(NumMul(NumFromInt(i), ratio))}} : TRUE

\* resampleAudio(inputBuffer, inputSampleRate, outputSampleRate), on samples
resampleAudio(inputSamples, inputSampleRate, outputSampleRate) ==
  CHOOSE outputSamples \in
    {IF outputLength = 0 THEN <<>>
     ELSE [i \in 1 .. outputLength |-> resampleSample(inputSamples, ratio, i - 1)] :
     ratio \in {resampleRatio(inputSampleRate, outputSampleRate)},
     outputLength \in {resampleLength(Len(inputSamples), inputSampleRate,
                                      outputSampleRate)}} : TRUE

\* the client's PCMU rate and the rate negotiated with the agent by the AI-Meet
\* backend: the two rates resampleAudio is called with
PCMU_SAMPLE_RATE == 8000
UltravoxSampleRate == 48000
UsedRates == {PCMU_SAMPLE_RATE, UltravoxSampleRate}

\* other positive rates the function accepts
OtherRates == {1, 3, 93}

\* sample values the inputs are built from: both ends of the int16 range and
\* the values around zero
SampleChoices == {-32768, -1, 0, 1, 32767}

\* longest input made of arbitrary samples, and longest input of one repeated sample
MaxResampleLen == 3
MaxConstLen == 13

\* every sequence of at most n samples
SampleSeqs(n) == UNION {[1 .. k -> SampleChoices] : k \in 0 .. n}

\* n times the sample c
Repeat(c, n) == [i \in 1 .. n |-> c]

\* n samples: a first, c seventh, b everywhere else
ThreeLevels(a, b, c, n) ==
  [i \in 1 .. n |-> IF i = 1 THEN a ELSE IF i = 7 THEN c ELSE b]

\* the calls of resampleAudio that are exercised: arbitrary short inputs and
\* longer constant inputs between the used rates, short constant inputs
\* between the other rates, 10 ms of silence from 48 kHz to 44.1 kHz, and
\* inputs long enough to give two samples when taken from 48 kHz to 8 kHz
ResampleCalls ==
  ({[inputSamples |-> ThreeLevels(a, b, c, n), inputSampleRate |-> UltravoxSampleRate,
     outputSampleRate |-> PCMU_SAMPLE_RATE] :
      a \in SampleChoices, b \in SampleChoices, c \in SampleChoices,
      n \in {MaxConstLen - 1, MaxConstLen}})
  \cup
  ({[inputSamples |-> x, inputSampleRate |-> rin, outputSampleRate |-> rout] :
      x \in SampleSeqs(MaxResampleLen), rin \in UsedRates, rout \in UsedRates})
  \cup
  ({[inputSamples |-> Repeat(c, n), inputSampleRate |-> rin, outputSampleRate |-> rout] :
      c \in SampleChoices, n \in 0 .. MaxConstLen, rin \in UsedRates, rout \in UsedRates})
  \cup
  ({[inputSamples |-> Repeat(c, n), inputSampleRate |-> rin, outputSampleRate |-> rout] :
      c \in SampleChoices, n \in 0 .. MaxResampleLen, rin \in OtherRates, rout \in OtherRates})
  \cup
  {[inputSamples |-> Repeat(0, 480), inputSampleRate |-> 48000, outputSampleRate |-> 44100]}

ResampleInit ==
  /\ ServersIdle
  /\ cop = "off"
  /\ cx = 0
  /\ cy = NoOut
  /\ cz = NoOut
  /\ \E call \in ResampleCalls : dsp = [op |-> "resample", call |-> call, out |-> <<>>]

\* resampleAudio is called and returns
Resample ==
  /\ dsp.op = "resample"
  /\ dsp' = [dsp EXCEPT !.op = "resampled",
                        !.out = resampleAudio(dsp.call.inputSamples,
                                              dsp.call.inputSampleRate,
                                              dsp.call.outputSampleRate)]
  /\ UNCHANGED <<cop, cx, cy, cz>>
  /\ UNCHANGED srvVars

SpecResample == ResampleInit /\ [][Resample]_vars

C14_ResamplerIdentity ==
  (dsp.op = "resampled" /\ dsp.call.inputSampleRate = dsp.call.outputSampleRate)
    => dsp.out = dsp.call.inputSamples

\* three different samples went through at 8 kHz -> 8 kHz and came back as they were
C14_Witness ==
  /\ dsp.op = "resampled"
  /\ dsp.call.inputSampleRate = 8000
  /\ dsp.call.outputSampleRate = 8000
  /\ dsp.call.inputSamples = <<-32768, 1, 32767>>
  /\ dsp.out = <<-32768, 1, 32767>>

\* the input is one sample c repeated, with |c| <= 32767
IsConstantInput(x) ==
  /\ Len(x) > 0
  /\ \A i \in DOMAIN x : x[i] = x[1]
  /\ x[1] >= -32767
  /\ x[1] <= 32767

\* C15: a constant input c with |c| <= 32767, resampled 8 kHz -> 48 kHz or
\* 48 kHz -> 8 kHz, gives an output whose every sample is within 1 of c.
C15_ResamplerKeepsDC ==
  (/\ dsp.op = "resampled"
   /\ dsp.call.inputSampleRate # dsp.call.outputSampleRate
   /\ dsp.call.inputSampleRate \in UsedRates
   /\ dsp.call.outputSampleRate \in UsedRates
   /\ IsConstantInput(dsp.call.inputSamples))
    => \A j \in DOMAIN dsp.out :
         /\ dsp.out[j] - dsp.call.inputSamples[1] <= 1
         /\ dsp.call.inputSamples[1] - dsp.out[j] <= 1

\* thirteen samples of -1 at 48 kHz came out as two samples of -1 at 8 kHz
C15_Witness ==
  /\ dsp.op = "resampled"
  /\ dsp.call.inputSampleRate = 48000
  /\ dsp.call.outputSampleRate = 8000
  /\ dsp.call.inputSamples = Repeat(-1, 13)
  /\ dsp.out = <<-1, -1>>

\* the greatest common divisor of two positive rates
RECURSIVE Gcd(_, _)
Gcd(a, b) == IF b = 0 THEN a ELSE Gcd(b, a % b)

\* the rates in lowest terms
ReducedIn(call) == call.inputSampleRate \div Gcd(call.inputSampleRate, call.outputSampleRate)
ReducedOut(call) == call.outputSampleRate \div Gcd(call.inputSampleRate, call.outputSampleRate)

\* y is an integer nearest to num / den, for den > 0
IsNearest(y, num, den) == 2 * (y * den - num) <= den /\ 2 * (num - y * den) <= den

\* y lies between a and b
IsBetween(y, a, b) == (a <= y /\ y <= b) \/ (b <= y /\ y <= a)

\* C34: with k = floor(i * r_in / r_out) for output index i, the output sample
\* is exactly in[k] when k + 1 >= len(in) (the last input sample is held), and
\* otherwise it is the linear interpolation between in[k] and in[k + 1] at
\* i * r_in / r_out, rounded to a nearest integer, which lies between those two
\* samples and so within int16.
C34_ResamplerBoundary ==
  dsp.op = "resampled" =>
    \A j \in DOMAIN dsp.out :
      LET in  == dsp.call.inputSamples
          pos == (j - 1) * ReducedIn(dsp.call)
          den == ReducedOut(dsp.call)
          k   == pos \div den
      IN  IF k + 1 >= Len(in)
          THEN k < Len(in) /\ dsp.out[j] = in[k + 1]
          ELSE /\ IsNearest(dsp.out[j],
                            in[k + 1] * den + (in[k + 2] - in[k + 1]) * (pos % den), den)
               /\ IsBetween(dsp.out[j], in[k + 1], in[k + 2])

\* three samples at 8 kHz came out as eighteen at 48 kHz: the first twelve
\* interpolated, one of them strictly between its neighbours, the last six
\* holding the last input sample
C34_Witness ==
  /\ dsp.op = "resampled"
  /\ dsp.call.inputSampleRate = 8000
  /\ dsp.call.outputSampleRate = 48000
  /\ dsp.call.inputSamples = <<-32768, 1, 32767>>
  /\ Len(dsp.out) = 18
  /\ dsp.out[4] > -32768 /\ dsp.out[4] < 1
  /\ \A j \in 13 .. 18 : dsp.out[j] = 32767

----------------------------------------------------------------------------
(* The click-reduction filters of AudioBridge (src/server/server.js).       *)
(* A sample is a Number: the gate passes integers through, the limiter and  *)
(* the smoother produce fractions.                                          *)

\* a gate that also silences a sample of exactly the threshold
applyNoiseGateInclusive(samples, threshold) ==
  [i \in DOMAIN samples |-> IF Abs(samples[i]) <= threshold THEN 0 ELSE samples[i]]

\* applyNoiseGate(samples, threshold), on integer samples
applyNoiseGate(samples, threshold) ==
  [i \in DOMAIN samples |-> IF Abs(samples[i]) < threshold THEN 0 ELSE samples[i]]

\* Math.tanh is implementation-approximated: for an argument above 1 (the
\* only arguments the limiter passes when the limit is positive) the result
\* is some double between tanh(1) = 0.7615... and 1. These are the results
\* considered.
TanhResults ==
  {NumDiv(NumFromInt(7615), NumFromInt(10000)),
   NumSub(NumFromInt(1), NumRound(1, <<1>>, -53)),
   NumFromInt(1)}

\* a limiter that scales the sample itself instead of the limit
applySoftLimitingScalesSample(samples, limit, tanh) ==
  [i \in DOMAIN samples |->
     IF Abs(samples[i]) > limit
     THEN LET sign == IF samples[i] >= 0 THEN 1 ELSE -1
              compressed == NumMul(tanh[Abs(samples[i])], NumFromInt(Abs(samples[i])))
          IN  NumMul(NumFromInt(sign), compressed)
     ELSE NumFromInt(samples[i])]

\* applySoftLimiting(samples, limit), on integer samples; tanh[a] is what
\* Math.tanh(a / limit) returns for the magnitude a of a sample
applySoftLimiting(samples, limit, tanh) ==
  [i \in DOMAIN samples |->
     IF Abs(samples[i]) > limit
     THEN LET sign == IF samples[i] >= 0 THEN 1 ELSE -1
              compressed == NumMul(tanh[Abs(samples[i])], NumFromInt(limit))
          IN  NumMul(NumFromInt(sign), compressed)
     ELSE NumFromInt(samples[i])]

\* const alpha = 0.95, and 1 - alpha
alpha == NumDiv(NumFromInt(95), NumFromInt(100))
oneMinusAlpha == NumSub(NumFromInt(1), alpha)

\* alpha * sample + (1 - alpha) * previous
smoothStep(sample, previous) ==
  NumAdd(NumMul(alpha, sample), NumMul(oneMinusAlpha, previous))

\* the loop over samples[1 ..], i counted from 1 here; each smoothed sample
\* is computed once and then appended
RECURSIVE smoothLoop(_, _, _)
smoothLoop(samples, smoothedSamples, i) ==
  IF i > Len(samples) THEN smoothedSamples
  ELSE CHOOSE result \in
         {smoothLoop(samples, Append(smoothedSamples, y), i + 1) :
            y \in {smoothStep(samples[i], smoothedSamples[i - 1])}} : TRUE

\* a smoother that hands back its tail rounded to an integer
applySmoothingFilterRoundsTail(samples, previousSample) ==
  IF Len(samples) = 0
  THEN [smoothedSamples |-> samples, lastSample |-> previousSample]
  ELSE CHOOSE result \in
         {[smoothedSamples |-> smoothedSamples,
           lastSample |-> NumFromInt(MathRound(smoothedSamples[Len(smoothedSamples)]))] :
          smoothedSamples \in
            {smoothLoop(samples, <<smoothStep(samples[1], previousSample)>>, 2)}} : TRUE

\* applySmoothingFilter(samples, previousSample)
applySmoothingFilter(samples, previousSample) ==
  IF Len(samples) = 0
  THEN [smoothedSamples |-> samples, lastSample |-> previousSample]
  ELSE CHOOSE result \in
         {[smoothedSamples |-> smoothedSamples,
           lastSample |-> smoothedSamples[Len(smoothedSamples)]] :
          smoothedSamples \in
            {smoothLoop(samples, <<smoothStep(samples[1], previousSample)>>, 2)}} : TRUE

\* the threshold both converters pass, and the default of the parameter
GateThresholds == {50, 100}

\* the limit both converters pass, the default of the parameter, and the
\* smallest positive limit
Limits == {1, 28000, 30000}

\* samples around the thresholds, around the limits and at both ends of int16
GateChoices == {-32768, -50, -49, 0, 49, 50, 100, 32767}
LimitChoices == {-32768, -28001, -28000, 0, 28000, 30001, 32767}

\* samples that reach the smoother
SmoothChoices == {NumFromInt(c) : c \in {-28000, 0, 51, 28000}}

\* longest input of the gate and of the limiter, and of the smoother
MaxFilterLen == 2
MaxSmoothLen == 3

\* the magnitudes for which the limiter calls Math.tanh
AboveLimit(samples, limit) ==
  {Abs(samples[i]) : i \in {j \in DOMAIN samples : Abs(samples[j]) > limit}}

\* the tail of a session: 0 at first, later what the smoother returned last
TailChoices ==
  {NumZero} \cup
  {applySmoothingFilter(<<NumFromInt(c)>>, NumZero).lastSample : c \in {-28000, 51}}

NoSmoothing == [smoothedSamples |-> <<>>, lastSample |-> NumZero]

FiltersInit ==
  /\ ServersIdle
  /\ cop = "off"
  /\ cx = 0
  /\ cy = NoOut
  /\ cz = NoOut
  /\ \/ \E n \in 0 .. MaxFilterLen, t \in GateThresholds :
          \E x \in [1 .. n -> GateChoices] :
             dsp = [op |-> "gate", samples |-> x, threshold |-> t, out |-> <<>>]
     \/ \E n \in 0 .. MaxFilterLen, l \in Limits :
          \E x \in [1 .. n -> LimitChoices] :
             dsp = [op |-> "limit", samples |-> x, limit |-> l,
                    tanh |-> <<>>, out |-> <<>>]
     \/ \E n \in 0 .. MaxSmoothLen, p \in TailChoices :
          \E x \in [1 .. n -> SmoothChoices], k \in 0 .. n :
             dsp = [op |-> "smooth", samples |-> x, previousSample |-> p,
                    split |-> k, once |-> NoSmoothing, first |-> NoSmoothing,
                    second |-> NoSmoothing]

\* applyNoiseGate is called and returns
Gate ==
  /\ dsp.op = "gate"
  /\ dsp' = [dsp EXCEPT !.op = "gated",
                        !.out = applyNoiseGate(dsp.samples, dsp.threshold)]
  /\ UNCHANGED <<cop, cx, cy, cz>>
  /\ UNCHANGED srvVars

\* applySoftLimiting is called and returns; Math.tanh answers for every
\* magnitude above the limit
Limit ==
  /\ dsp.op = "limit"
  /\ \E tanh \in [AboveLimit(dsp.samples, dsp.limit) -> TanhResults] :
       dsp' = [dsp EXCEPT !.op = "limited",
                          !.tanh = tanh,
                          !.out = applySoftLimiting(dsp.samples, dsp.limit, tanh)]
  /\ UNCHANGED <<cop, cx, cy, cz>>
  /\ UNCHANGED srvVars

\* applySmoothingFilter is called once on the whole input
SmoothOnce ==
  /\ dsp.op = "smooth"
  /\ dsp' = [dsp EXCEPT !.op = "smoothedOnce",
                        !.once = applySmoothingFilter(dsp.samples, dsp.previousSample)]
  /\ UNCHANGED <<cop, cx, cy, cz>>
  /\ UNCHANGED srvVars

\* the same input arrives in two chunks: the first chunk is smoothed
SmoothFirstChunk ==
  /\ dsp.op = "smoothedOnce"
  /\ dsp' = [dsp EXCEPT !.op = "firstChunk",
                        !.first = applySmoothingFilter(SubSeq(dsp.samples, 1, dsp.split),
                                                       dsp.previousSample)]
  /\ UNCHANGED <<cop, cx, cy, cz>>
  /\ UNCHANGED srvVars

\* the second chunk is smoothed with the lastSample the first call returned
SmoothSecondChunk ==
  /\ dsp.op = "firstChunk"
  /\ dsp' = [dsp EXCEPT !.op = "secondChunk",
                        !.second = applySmoothingFilter(
                                     SubSeq(dsp.samples, dsp.split + 1, Len(dsp.samples)),
                                     dsp.first.lastSample)]
  /\ UNCHANGED <<cop, cx, cy, cz>>
  /\ UNCHANGED srvVars

FiltersNext == Gate \/ Limit \/ SmoothOnce \/ SmoothFirstChunk \/ SmoothSecondChunk

SpecFilters == FiltersInit /\ [][FiltersNext]_vars

\* C16: smoothing the first chunk with the session tail and then the second
\* chunk with the returned lastSample gives exactly the output and the final
\* tail of one call on the whole input, for every split point; an empty
\* chunk leaves the tail unchanged.
C16_SmootherContinuity ==
  /\ dsp.op = "secondChunk" =>
       /\ dsp.first.smoothedSamples \o dsp.second.smoothedSamples
            = dsp.once.smoothedSamples
       /\ dsp.second.lastSample = dsp.once.lastSample
       /\ dsp.split = Len(dsp.samples) => dsp.second.lastSample = dsp.first.lastSample
  /\ (dsp.op \in {"firstChunk", "secondChunk"} /\ dsp.split = 0) =>
       dsp.first.lastSample = dsp.previousSample

\* <<51, -28000, 28000>> after a tail left by an earlier chunk, split after
\* the first sample: both ways give the same three fractions and the same tail
C16_Witness ==
  /\ dsp.op = "secondChunk"
  /\ dsp.samples = <<NumFromInt(51), NumFromInt(-28000), NumFromInt(28000)>>
  /\ dsp.previousSample # NumZero
  /\ dsp.split = 1
  /\ Len(dsp.first.smoothedSamples) = 1
  /\ Len(dsp.second.smoothedSamples) = 2
  /\ dsp.second.lastSample = dsp.once.lastSample
  /\ dsp.once.lastSample # NumFromInt(MathRound(dsp.once.lastSample))

\* C17: every output sample of the gate is 0 or has magnitude >= T, and
\* every input sample of magnitude >= T passes through unchanged.
C17_GateThreshold ==
  dsp.op = "gated" =>
    /\ Len(dsp.out) = Len(dsp.samples)
    /\ \A i \in DOMAIN dsp.out :
         /\ dsp.out[i] = 0 \/ Abs(dsp.out[i]) >= dsp.threshold
         /\ Abs(dsp.samples[i]) >= dsp.threshold => dsp.out[i] = dsp.samples[i]

\* with T = 50, 49 was silenced and -50 passed
C17_Witness ==
  /\ dsp.op = "gated"
  /\ dsp.threshold = 50
  /\ dsp.samples = <<49, -50>>
  /\ dsp.out = <<0, -50>>

\* the magnitude of a Number
NumAbs(x) == IF x.m = <<>> THEN x ELSE [x EXCEPT !.s = 1]

\* C18: every output sample of the limiter has magnitude <= L; a sample with
\* |x| <= L passes through unchanged and a sample above L is replaced by
\* sign(x) * tanh(|x| / L) * L.
C18_LimiterBound ==
  dsp.op = "limited" =>
    /\ Len(dsp.out) = Len(dsp.samples)
    /\ \A i \in DOMAIN dsp.out :
         /\ ~NumLess(NumFromInt(dsp.limit), NumAbs(dsp.out[i]))
         /\ Abs(dsp.samples[i]) <= dsp.limit => dsp.out[i] = NumFromInt(dsp.samples[i])
         /\ Abs(dsp.samples[i]) > dsp.limit =>
              /\ dsp.tanh[Abs(dsp.samples[i])] \in TanhResults
              /\ dsp.out[i] = NumMul(NumFromInt(IF dsp.samples[i] < 0 THEN -1 ELSE 1),
                                     NumMul(dsp.tanh[Abs(dsp.samples[i])],
                                            NumFromInt(dsp.limit)))

\* with L = 28000, 28000 passed and -32768 became -0.7615 * 28000, about -21322
C18_Witness ==
  /\ dsp.op = "limited"
  /\ dsp.limit = 28000
  /\ dsp.samples = <<28000, -32768>>
  /\ dsp.out[1] = NumFromInt(28000)
  /\ dsp.tanh[32768] = NumDiv(NumFromInt(7615), NumFromInt(10000))
  /\ NumLess(NumFromInt(-21323), dsp.out[2])
  /\ NumLess(dsp.out[2], NumFromInt(-21321))

----------------------------------------------------------------------------
(* The audio transforms of both servers, on one binary frame. A frame is   *)
(* its sequence of bytes.                                                   *)

\* an ArrayBuffer that holds one byte per sample where two are meant
Int16BytesLowOnly(samples) ==
  [k \in 1 .. Len(samples) |-> AndLow(samples[k], 255)]

\* the bytes of int16 samples in an ArrayBuffer (little-endian)
Int16Bytes(samples) ==
  [k \in 1 .. 2 * Len(samples) |->
     IF k % 2 = 1 THEN AndLow(samples[(k + 1) \div 2], 255)
     ELSE AndLow(Shr(samples[k \div 2], 8), 255)]

\* new Int16Array(buffer) for a buffer of even length
Int16View(bytes) ==
  [i \in 1 .. Len(bytes) \div 2 |-> ToInt16(bytes[2 * i - 1] + Shl(bytes[2 * i], 8))]

\* AI-Meet convertPcmuToPcm16, on samples
meetConvertPcmuToPcm16(pcmuSamples) ==
  [i \in DOMAIN pcmuSamples |-> ToInt16(meetDecode(pcmuSamples[i]))]

\* AI-Meet convertPcm16ToPcmu, on samples
meetConvertPcm16ToPcmu(pcm16Samples) ==
  [i \in DOMAIN pcm16Samples |-> meetEncode(pcm16Samples[i])]

\* Math.max(...pcmSamples.map(s => Math.abs(s))): map on an Int16Array
\* stores each magnitude as an int16
maxAmplitude(pcmSamples) ==
  LET mags == {ToInt16(Abs(pcmSamples[i])) : i \in DOMAIN pcmSamples}
  IN  CHOOSE a \in mags : \A b \in mags : b <= a

\* clientWs.on('message') of the AI-Meet backend for a binary frame while
\* the upstream socket is open: the frames sent upstream
meetClientAudio(data) ==
  IF Len(data) = 0 THEN <<>>
  ELSE IF \A i \in DOMAIN data : data[i] \in {127, 255} THEN <<>>
  ELSE LET pcm16Samples == meetConvertPcmuToPcm16(data)
       IN  IF maxAmplitude(pcm16Samples) = 0 THEN <<>>
           ELSE CHOOSE sent \in
                  {IF Len(upsampledSamples) = 0 THEN <<>>
                   ELSE <<Int16Bytes(upsampledSamples)>> :
                   upsampledSamples \in {resampleAudio(pcm16Samples, 8000, 48000)}} : TRUE

\* ultravoxWs.on('message') of the AI-Meet backend for a binary frame while
\* the client socket is open: the frames sent to the client. An odd byte
\* length makes new Int16Array throw, which the handler catches.
meetUltravoxAudio(data) ==
  IF Len(data) % 2 = 1 THEN <<>>
  ELSE LET inputSamples == Int16View(data)
       IN  IF ~\E i \in DOMAIN inputSamples : Abs(inputSamples[i]) > 100 THEN <<>>
           ELSE CHOOSE sent \in
                  {IF Len(downsampled) = 0 THEN <<>>
                   ELSE LET pcmuBytes == meetConvertPcm16ToPcmu(downsampled)
                        IN  IF \E i \in DOMAIN pcmuBytes : pcmuBytes[i] # pcmuBytes[1]
                            THEN <<pcmuBytes>>
                            ELSE <<>> :
                   downsampled \in {resampleAudio(inputSamples, 48000, 8000)}} : TRUE

\* connectionState.lastInputSample || 0
OrZero(x) == IF x.m = <<>> THEN NumZero ELSE x

\* the PCM16 bytes written by AudioBridge.convertPcmuToPcm16
bridgePcmData(smoothedSamples) ==
  [k \in 1 .. 2 * Len(smoothedSamples) |->
     IF k % 2 = 1 THEN AndLow(MathRound(smoothedSamples[(k + 1) \div 2]), 255)
     ELSE AndLow(Shr(MathRound(smoothedSamples[k \div 2]), 8), 255)]

\* AudioBridge.convertPcmuToPcm16(pcmuBuffer, connectionState): the buffer
\* returned and the lastInputSample stored
bridgeConvertPcmuToPcm16(pcmuBuffer, lastInputSample, tanh) ==
  LET linearSamples    == [i \in DOMAIN pcmuBuffer |-> ulawToLinear(pcmuBuffer[i])]
      processedSamples == applyNoiseGate(linearSamples, 50)
      limitedSamples   == applySoftLimiting(processedSamples, 28000, tanh)
  IN  CHOOSE result \in
        {[buffer |-> bridgePcmData(smoothed.smoothedSamples),
          lastSample |-> smoothed.lastSample] :
         smoothed \in {applySmoothingFilter(limitedSamples,
                                            OrZero(lastInputSample))}} : TRUE

\* the samples AudioBridge.convertPcm16ToPcmu reads: the loop stops before
\* a last byte that has no partner
bridgeLinearSamples(pcmBytes) ==
  [i \in 1 .. Len(pcmBytes) \div 2 |->
     LET sample == pcmBytes[2 * i - 1] + Shl(pcmBytes[2 * i], 8)
     IN  IF sample > 32767 THEN sample - 65536 ELSE sample]

\* AudioBridge.convertPcm16ToPcmu(pcm16Buffer, connectionState): the buffer
\* returned and the lastOutputSample stored
bridgeConvertPcm16ToPcmu(pcm16Buffer, lastOutputSample, tanh) ==
  LET linearSamples    == bridgeLinearSamples(pcm16Buffer)
      processedSamples == applyNoiseGate(linearSamples, 50)
      limitedSamples   == applySoftLimiting(processedSamples, 28000, tanh)
  IN  CHOOSE result \in
        {[buffer |-> [i \in DOMAIN smoothed.smoothedSamples |->
                        linearToUlaw(MathRound(smoothed.smoothedSamples[i]))],
          lastSample |-> smoothed.lastSample] :
         smoothed \in {applySmoothingFilter(limitedSamples,
                                            OrZero(lastOutputSample))}} : TRUE

\* PCMU bytes a client frame is built from: the loudest code, the two
\* silence codes, and a quiet code
PcmuChoices == {0, 127, 255, 213}

\* samples an upstream frame is built from: silence, the two sides of the
\* AI-Meet validity level, a loud sample and the largest one
Pcm16Choices == {0, 100, 101, -5000, 32767}

\* longest client frame (bytes) and longest upstream frame (samples)
MaxUpLen == 3
MaxDownLen == 13

\* a samples up to position 6, b samples after it
TwoLevels(a, b, n) == [i \in 1 .. n |-> IF i <= 6 THEN a ELSE b]

\* client frames: every short frame
ClientFrames == UNION {[1 .. n -> PcmuChoices] : n \in 0 .. MaxUpLen}

\* upstream frames: PCM16 samples at two levels, with or without a last
\* byte that has no partner
UltravoxFrames ==
  {Int16Bytes(TwoLevels(a, b, n)) \o odd :
     a \in Pcm16Choices, b \in Pcm16Choices, n \in 0 .. MaxDownLen,
     odd \in {<<>>, <<1>>}}

FramesInit ==
  /\ ServersIdle
  /\ cop = "off"
  /\ cx = 0
  /\ cy = NoOut
  /\ cz = NoOut
  /\ \/ \E data \in ClientFrames :
          dsp = [op |-> "clientFrame", prog |-> "meet", data |-> data,
                 tail |-> NumZero, sent |-> <<>>]
     \/ \E data \in ClientFrames :
          \/ \E tail \in TailChoices :
               dsp = [op |-> "clientFrame", prog |-> "bridge", data |-> data,
                      tail |-> tail, sent |-> <<>>]
     \/ \E data \in UltravoxFrames :
          dsp = [op |-> "ultravoxFrame", prog |-> "meet", data |-> data,
                 tail |-> NumZero, sent |-> <<>>]
     \/ \E data \in UltravoxFrames :
          \/ \E tail \in TailChoices :
               dsp = [op |-> "ultravoxFrame", prog |-> "bridge", data |-> data,
                      tail |-> tail, sent |-> <<>>]

\* AI-Meet: a binary frame of the client is handled, the upstream socket open
MeetClientFrame ==
  /\ dsp.op = "clientFrame"
  /\ dsp.prog = "meet"
  /\ dsp' = [dsp EXCEPT !.op = "clientFrameDone", !.sent = meetClientAudio(dsp.data)]
  /\ UNCHANGED <<cop, cx, cy, cz>>
  /\ UNCHANGED srvVars

\* AI-Meet: a binary frame of the agent is handled, the client socket open
MeetUltravoxFrame ==
  /\ dsp.op = "ultravoxFrame"
  /\ dsp.prog = "meet"
  /\ dsp' = [dsp EXCEPT !.op = "ultravoxFrameDone", !.sent = meetUltravoxAudio(dsp.data)]
  /\ UNCHANGED <<cop, cx, cy, cz>>
  /\ UNCHANGED srvVars

\* AudioBridge: a binary frame of the client is handled, the upstream socket
\* open; lastInputSample is dsp.tail
BridgeClientFrame ==
  /\ dsp.op = "clientFrame"
  /\ dsp.prog = "bridge"
  /\ LET gated == applyNoiseGate([i \in DOMAIN dsp.data |-> ulawToLinear(dsp.data[i])], 50)
     IN  \E tanh \in [AboveLimit(gated, 28000) -> TanhResults] :
           LET r == bridgeConvertPcmuToPcm16(dsp.data, dsp.tail, tanh)
           IN  dsp' = [dsp EXCEPT !.op = "clientFrameDone",
                                  !.sent = <<r.buffer>>,
                                  !.tail = r.lastSample]
  /\ UNCHANGED <<cop, cx, cy, cz>>
  /\ UNCHANGED srvVars

\* AudioBridge: a binary frame of the agent is handled, the client socket
\* open; lastOutputSample is dsp.tail
BridgeUltravoxFrame ==
  /\ dsp.op = "ultravoxFrame"
  /\ dsp.prog = "bridge"
  /\ LET gated == applyNoiseGate(bridgeLinearSamples(dsp.data), 50)
     IN  \E tanh \in [AboveLimit(gated, 28000) -> TanhResults] :
           LET r == bridgeConvertPcm16ToPcmu(dsp.data, dsp.tail, tanh)
           IN  dsp' = [dsp EXCEPT !.op = "ultravoxFrameDone",
                                  !.sent = <<r.buffer>>,
                                  !.tail = r.lastSample]
  /\ UNCHANGED <<cop, cx, cy, cz>>
  /\ UNCHANGED srvVars

FramesNext ==
  MeetClientFrame \/ MeetUltravoxFrame \/ BridgeClientFrame \/ BridgeUltravoxFrame

SpecFrames == FramesInit /\ [][FramesNext]_vars

AllBytesEqual(frame) == \A i \in DOMAIN frame : frame[i] = frame[1]

\* C21: no binary frame whose bytes are all equal is sent to the client; an
\* upstream PCM16 frame in which every sample is 0 results in no binary frame
\* to the client.
C21_SilenceSuppressed ==
  dsp.op = "ultravoxFrameDone" =>
    /\ \A k \in DOMAIN dsp.sent : ~AllBytesEqual(dsp.sent[k])
    /\ (\A i \in DOMAIN dsp.data : dsp.data[i] = 0) => dsp.sent = <<>>

\* C23: every binary frame received from the client while the upstream socket
\* is open results in exactly one binary frame sent upstream, whatever its
\* content.
C23_ClientAudioForwarded ==
  dsp.op = "clientFrameDone" => Len(dsp.sent) = 1

\* C24: an upstream PCM16 frame with an odd number of bytes cannot be
\* transformed and is dropped: nothing is sent to the client for it.
C24_MalformedFrameDropped ==
  (dsp.op = "ultravoxFrameDone" /\ Len(dsp.data) % 2 = 1) => dsp.sent = <<>>

----------------------------------------------------------------------------
(* The sockets and the send calls.                                         *)

\* frames delivered in a run with one client, and in a run with every client
MaxFrames == 3
MaxFramesShared == 1

FrameKinds == {"audio", "silent", "text"}

RECURSIVE SumOver(_, _)
SumOver(f, S) ==
  IF S = {} THEN 0
  ELSE LET x == CHOOSE y \in S : TRUE IN f[x] + SumOver(f, S \ {x})

\* frames that arrived so far, on every socket
TotalFrames == SumOver(nC, Sessions) + SumOver(nU, Sessions)

\* the sockets, the registry and the counters
World == [client |-> client, uv |-> uv, registry |-> registry, stats |-> stats]

\* ws: close() on a socket. A handshake in progress is aborted ('error' and
\* 'close' follow), an open socket starts the closing handshake, otherwise nothing.
wsClose(readyState) ==
  CASE readyState = "CONNECTING" -> "ABORTING"
    [] readyState = "OPEN" -> "CLOSING"
    [] OTHER -> readyState

\* ws: the outcome of send() on a socket in this state; `threw` is the
\* environment's choice for a send on an open socket
SendResult(readyState, threw) ==
  IF readyState # "OPEN" THEN "closed"
  ELSE IF threw THEN "threw" ELSE "ok"

\* a JSON message the server itself writes: {type:'connected'} ("connected"),
\* {error, details} ("error") or {error} alone ("errorOnly")
Msg(m, r) == [msg |-> m, id |-> 0, kind |-> "json", res |-> r]

\* the frame produced from the id-th frame of the other socket
Frame(i, k, r) == [msg |-> "frame", id |-> i, kind |-> k, res |-> r]

\* mutant of wsSend: the newest frame overtakes the ones before it
wsSendFront(trace, entry) == <<entry>> \o trace

\* one call of ws.send recorded on the socket's trace
wsSend(trace, entry) == Append(trace, entry)

\* the frames of a trace that were written to the socket
SentFrames(trace) == SelectSeq(trace, LAMBDA e : e.msg = "frame" /\ e.res = "ok")

\* the number of send calls on a trace that threw
Throws(trace) == Len(SelectSeq(trace, LAMBDA e : e.res = "threw"))

\* mutant of relayCatch: the catch block closes the session
relayCatchCloses(w, s) ==
  [w EXCEPT !.client = [w.client EXCEPT ![s] = wsClose(@)],
            !.uv = [w.uv EXCEPT ![s] = wsClose(@)],
            !.registry = w.registry \ {s}]

\* the catch blocks around the relaying sends (relayErr, conversionErr, sendErr in
\* the AI-Meet backend; the catch of each 'message' listener in AudioBridge): the
\* error is logged, the sockets, the registry and the counters stay as they are
relayCatch(w, s) == w

\* the state after a 'message' listener that made the send calls `after` on a
\* socket whose trace was `before`
afterRelay(w, s, before, after) ==
  IF Throws(after) > Throws(before) THEN relayCatch(w, s) ELSE w

\* the entry is the send of a relayed frame
IsFrame(e) == e.msg = "frame"

----------------------------------------------------------------------------
(* AI-Meet backend: wss.on('connection', async (clientWs, req) => ...)     *)

\* a client WebSocket is accepted; the handler issues the call-creation POST
MeetAccept(s) ==
  /\ prog = "meet"
  /\ s \in env.clients
  /\ pc[s] = "none"
  /\ pc' = [pc EXCEPT ![s] = "fetch"]
  /\ client' = [client EXCEPT ![s] = "OPEN"]
  /\ UNCHANGED <<prog, uv, timer, handlers, registry, stats, sendsC, sendsU, nC, nU, env>>
  /\ UNCHANGED codecVars

\* the catch block of the handler: error JSON and close, if the client is open
MeetCatch(s) ==
  /\ pc' = [pc EXCEPT ![s] = "done"]
  /\ IF client[s] = "OPEN"
     THEN /\ sendsC' = [sendsC EXCEPT ![s] = wsSend(@, Msg("error", "ok"))]
          /\ client' = [client EXCEPT ![s] = wsClose(@)]
     ELSE UNCHANGED <<sendsC, client>>
  /\ UNCHANGED <<prog, uv, timer, handlers, registry, stats, sendsU, nC, nU, env>>
  /\ UNCHANGED codecVars

\* await fetch(...) rejects
MeetFetchFail(s) ==
  /\ prog = "meet"
  /\ pc[s] = "fetch"
  /\ MeetCatch(s)

\* await fetch(...) resolves (whatever the HTTP status)
MeetFetchOk(s) ==
  /\ prog = "meet"
  /\ pc[s] = "fetch"
  /\ pc' = [pc EXCEPT ![s] = "json"]
  /\ UNCHANGED <<prog, client, uv, timer, handlers, registry, stats, sendsC, sendsU, nC, nU, env>>
  /\ UNCHANGED codecVars

\* await callResponse.json() rejects
MeetJsonFail(s) ==
  /\ prog = "meet"
  /\ pc[s] = "json"
  /\ MeetCatch(s)

\* the response carries no joinUrl
MeetNoJoinUrl(s) ==
  /\ prog = "meet"
  /\ pc[s] = "json"
  /\ pc' = [pc EXCEPT ![s] = "done"]
  /\ sendsC' = [sendsC EXCEPT ![s] = wsSend(@, Msg("errorOnly", SendResult(client[s], FALSE)))]
  /\ client' = [client EXCEPT ![s] = wsClose(@)]
  /\ UNCHANGED <<prog, uv, timer, handlers, registry, stats, sendsU, nC, nU, env>>
  /\ UNCHANGED codecVars

\* mutant of MeetJoin: `connected` is sent as soon as the upstream socket is created
MeetJoinAnnounces(s) ==
  /\ prog = "meet"
  /\ pc[s] = "json"
  /\ pc' = [pc EXCEPT ![s] = "run"]
  /\ uv' = [uv EXCEPT ![s] = "CONNECTING"]
  /\ registry' = registry \cup {s}
  /\ timer' = [timer EXCEPT ![s] = TRUE]
  /\ handlers' = [handlers EXCEPT ![s] = TRUE]
  /\ sendsC' = [sendsC EXCEPT ![s] = wsSend(@, Msg("connected", SendResult(client[s], FALSE)))]
  /\ UNCHANGED <<prog, client, stats, sendsU, nC, nU, env>>
  /\ UNCHANGED codecVars

\* the response carries a joinUrl: the upstream socket is created and registered,
\* the connect timer is set, the upstream listeners and then the client listeners
\* and the ping interval are installed
MeetJoin(s) ==
  /\ prog = "meet"
  /\ pc[s] = "json"
  /\ pc' = [pc EXCEPT ![s] = "run"]
  /\ uv' = [uv EXCEPT ![s] = "CONNECTING"]
  /\ registry' = registry \cup {s}
  /\ timer' = [timer EXCEPT ![s] = TRUE]
  /\ handlers' = [handlers EXCEPT ![s] = TRUE]
  /\ UNCHANGED <<prog, client, stats, sendsC, sendsU, nC, nU, env>>
  /\ UNCHANGED codecVars

\* connectionTimeout fires
MeetTimeout(s) ==
  /\ prog = "meet"
  /\ timer[s]
  /\ timer' = [timer EXCEPT ![s] = FALSE]
  /\ IF uv[s] = "CONNECTING"
     THEN /\ uv' = [uv EXCEPT ![s] = wsClose(@)]
          /\ sendsC' = [sendsC EXCEPT ![s] = wsSend(@, Msg("errorOnly", SendResult(client[s], FALSE)))]
          /\ client' = [client EXCEPT ![s] = wsClose(@)]
     ELSE UNCHANGED <<uv, sendsC, client>>
  /\ UNCHANGED <<prog, pc, handlers, registry, stats, sendsU, nC, nU, env>>
  /\ UNCHANGED codecVars

\* mutant of MeetUvOpen: the 'open' listener does not announce the connection
MeetUvOpenSilent(s) ==
  /\ prog = "meet"
  /\ uv[s] = "CONNECTING"
  /\ uv' = [uv EXCEPT ![s] = "OPEN"]
  /\ timer' = [timer EXCEPT ![s] = FALSE]
  /\ UNCHANGED <<prog, pc, client, handlers, registry, stats, sendsC, sendsU, nC, nU, env>>
  /\ UNCHANGED codecVars

\* ultravoxWs.on('open')
MeetUvOpen(s) ==
  /\ prog = "meet"
  /\ uv[s] = "CONNECTING"
  /\ uv' = [uv EXCEPT ![s] = "OPEN"]
  /\ timer' = [timer EXCEPT ![s] = FALSE]
  /\ sendsC' = [sendsC EXCEPT ![s] = wsSend(@, Msg("connected", SendResult(client[s], FALSE)))]
  /\ UNCHANGED <<prog, pc, client, handlers, registry, stats, sendsU, nC, nU, env>>
  /\ UNCHANGED codecVars

\* the sends of ultravoxWs.on('message') for one frame: a binary frame is sent once
\* (a silent one not at all); a text frame is sent in the try block and, when that
\* send throws, once more in the catch block meant for JSON.parse
meetRelayToClient(trace, id, kind, readyState, threw, threwAgain) ==
  IF kind = "silent" THEN trace
  ELSE LET first == wsSend(trace, Frame(id, kind, SendResult(readyState, threw)))
       IN  IF kind = "text" /\ threw
           THEN wsSend(first, Frame(id, kind, SendResult(readyState, threwAgain)))
           ELSE first

\* ultravoxWs.on('message'): a frame relayed towards the client
MeetUvMessage(s, kind, threw, threwAgain) ==
  /\ prog = "meet"
  /\ uv[s] = "OPEN"
  /\ TotalFrames < env.frames
  /\ nU' = [nU EXCEPT ![s] = @ + 1]
  /\ LET calls == IF client[s] = "OPEN"
                  THEN meetRelayToClient(sendsC[s], nU[s] + 1, kind, client[s], threw, threwAgain)
                  ELSE sendsC[s]
         w == afterRelay(World, s, sendsC[s], calls)
     IN  /\ sendsC' = [sendsC EXCEPT ![s] = calls]
         /\ client' = w.client
         /\ uv' = w.uv
         /\ registry' = w.registry
         /\ stats' = w.stats
  /\ UNCHANGED <<prog, pc, timer, handlers, sendsU, nC, env>>
  /\ UNCHANGED codecVars

\* ultravoxWs.on('error') and ultravoxWs.on('close'), emitted back to back when the
\* handshake fails or was aborted
MeetUvErrorAndClose(s) ==
  /\ uv' = [uv EXCEPT ![s] = "CLOSED"]
  /\ timer' = [timer EXCEPT ![s] = FALSE]
  /\ IF client[s] = "OPEN"
     THEN /\ sendsC' = [sendsC EXCEPT ![s] = wsSend(@, Msg("error", "ok"))]
          /\ client' = [client EXCEPT ![s] = wsClose(@)]
     ELSE UNCHANGED <<sendsC, client>>
  /\ registry' = registry \ {s}
  /\ UNCHANGED <<prog, pc, handlers, stats, sendsU, nC, nU, env>>
  /\ UNCHANGED codecVars

\* the upstream handshake fails
MeetUvConnectFail(s) ==
  /\ prog = "meet"
  /\ uv[s] = "CONNECTING"
  /\ MeetUvErrorAndClose(s)

\* the events of a handshake the server aborted with close()
MeetUvAborted(s) ==
  /\ prog = "meet"
  /\ uv[s] = "ABORTING"
  /\ MeetUvErrorAndClose(s)

\* ultravoxWs.on('error') on an open upstream socket; the socket is then closing
MeetUvError(s) ==
  /\ prog = "meet"
  /\ uv[s] = "OPEN"
  /\ uv' = [uv EXCEPT ![s] = "CLOSING"]
  /\ timer' = [timer EXCEPT ![s] = FALSE]
  /\ IF client[s] = "OPEN"
     THEN sendsC' = [sendsC EXCEPT ![s] = wsSend(@, Msg("error", "ok"))]
     ELSE UNCHANGED sendsC
  /\ UNCHANGED <<prog, pc, client, handlers, registry, stats, sendsU, nC, nU, env>>
  /\ UNCHANGED codecVars

\* the agent closes the upstream socket
MeetUvPeerClose(s) ==
  /\ prog = "meet"
  /\ uv[s] = "OPEN"
  /\ uv' = [uv EXCEPT ![s] = "CLOSING"]
  /\ UNCHANGED <<prog, pc, client, timer, handlers, registry, stats, sendsC, sendsU, nC, nU, env>>
  /\ UNCHANGED codecVars

\* ultravoxWs.on('close')
MeetUvClosed(s) ==
  /\ prog = "meet"
  /\ uv[s] = "CLOSING"
  /\ uv' = [uv EXCEPT ![s] = "CLOSED"]
  /\ timer' = [timer EXCEPT ![s] = FALSE]
  /\ client' = [client EXCEPT ![s] = wsClose(@)]
  /\ registry' = registry \ {s}
  /\ UNCHANGED <<prog, pc, handlers, stats, sendsC, sendsU, nC, nU, env>>
  /\ UNCHANGED codecVars

\* mutant of meetClientGone: a client that goes takes every session with it
meetClientGoneClosesAll(w, s) ==
  [w EXCEPT !.uv = [t \in Sessions |-> wsClose(w.uv[t])],
            !.registry = {}]

\* the body shared by clientWs.on('close') and clientWs.on('error'): the state of
\* the upstream sockets and the registry after it ran for session s
meetClientGone(w, s) ==
  IF s \in w.registry
  THEN [w EXCEPT !.uv = [w.uv EXCEPT ![s] = wsClose(@)],
                 !.registry = w.registry \ {s}]
  ELSE w

\* the send of clientWs.on('message') for one frame: a silent PCMU chunk is skipped
meetRelayToUpstream(trace, id, kind, readyState, threw) ==
  IF kind = "silent" THEN trace
  ELSE wsSend(trace, Frame(id, kind, SendResult(readyState, threw)))

\* clientWs.on('message'): a frame relayed towards the upstream
MeetClientMessage(s, kind, threw) ==
  /\ prog = "meet"
  /\ client[s] = "OPEN"
  /\ TotalFrames < env.frames
  /\ nC' = [nC EXCEPT ![s] = @ + 1]
  /\ LET calls == IF handlers[s] /\ s \in registry /\ uv[s] = "OPEN"
                  THEN meetRelayToUpstream(sendsU[s], nC[s] + 1, kind, uv[s], threw)
                  ELSE sendsU[s]
         w == afterRelay(World, s, sendsU[s], calls)
     IN  /\ sendsU' = [sendsU EXCEPT ![s] = calls]
         /\ client' = w.client
         /\ uv' = w.uv
         /\ registry' = w.registry
         /\ stats' = w.stats
  /\ UNCHANGED <<prog, pc, timer, handlers, sendsC, nU, env>>
  /\ UNCHANGED codecVars

\* the browser closes the client socket
MeetClientPeerClose(s) ==
  /\ prog = "meet"
  /\ client[s] = "OPEN"
  /\ client' = [client EXCEPT ![s] = "CLOSING"]
  /\ UNCHANGED <<prog, pc, uv, timer, handlers, registry, stats, sendsC, sendsU, nC, nU, env>>
  /\ UNCHANGED codecVars

\* clientWs.on('error'); the socket is then closing
MeetClientError(s) ==
  /\ prog = "meet"
  /\ client[s] = "OPEN"
  /\ handlers[s]
  /\ client' = [client EXCEPT ![s] = "CLOSING"]
  /\ uv' = meetClientGone(World, s).uv
  /\ registry' = meetClientGone(World, s).registry
  /\ UNCHANGED <<prog, pc, timer, handlers, stats, sendsC, sendsU, nC, nU, env>>
  /\ UNCHANGED codecVars

\* clientWs.on('close'), if it is registered by now
MeetClientClosed(s) ==
  /\ prog = "meet"
  /\ client[s] = "CLOSING"
  /\ client' = [client EXCEPT ![s] = "CLOSED"]
  /\ IF handlers[s]
     THEN /\ uv' = meetClientGone(World, s).uv
          /\ registry' = meetClientGone(World, s).registry
     ELSE UNCHANGED <<uv, registry>>
  /\ UNCHANGED <<prog, pc, timer, handlers, stats, sendsC, sendsU, nC, nU, env>>
  /\ UNCHANGED codecVars

----------------------------------------------------------------------------
(* AudioBridge (src/server/server.js)                                      *)

\* mutant of cleanupConnection: the `if (connectionState)` guard is missing
cleanupConnectionUnguarded(w, s) ==
  [w EXCEPT !.uv = [w.uv EXCEPT ![s] = wsClose(@)],
            !.registry = w.registry \ {s},
            !.stats.activeConnections = @ - 1]

\* AudioBridge.cleanupConnection(connectionId): the state of the upstream sockets,
\* the registry and the counters after it ran for session s
cleanupConnection(w, s) ==
  IF s \in w.registry
  THEN [w EXCEPT !.uv = [w.uv EXCEPT ![s] = wsClose(@)],
                 !.registry = w.registry \ {s},
                 !.stats.activeConnections = @ - 1]
  ELSE w

\* the catch block of handleConnection followed by its finally block
bridgeCatchFinally(w, s) ==
  cleanupConnection([w EXCEPT !.client = [w.client EXCEPT ![s] = wsClose(@)]], s)

\* mutant of BridgeAccept: the connection is registered but not counted as active
BridgeAcceptUncounted(s) ==
  /\ prog = "bridge"
  /\ s \in env.clients
  /\ pc[s] = "none"
  /\ pc' = [pc EXCEPT ![s] = "join"]
  /\ client' = [client EXCEPT ![s] = "OPEN"]
  /\ stats' = [stats EXCEPT !.totalConnections = @ + 1]
  /\ registry' = registry \cup {s}
  /\ UNCHANGED <<prog, uv, timer, handlers, sendsC, sendsU, nC, nU, env>>
  /\ UNCHANGED codecVars

\* handleConnection up to its first await
BridgeAccept(s) ==
  /\ prog = "bridge"
  /\ s \in env.clients
  /\ pc[s] = "none"
  /\ pc' = [pc EXCEPT ![s] = "join"]
  /\ client' = [client EXCEPT ![s] = "OPEN"]
  /\ stats' = [totalConnections |-> stats.totalConnections + 1,
               activeConnections |-> stats.activeConnections + 1]
  /\ registry' = registry \cup {s}
  /\ UNCHANGED <<prog, uv, timer, handlers, sendsC, sendsU, nC, nU, env>>
  /\ UNCHANGED codecVars

\* the handler leaves through catch and finally, in state w
BridgeFail(s, w) ==
  /\ pc' = [pc EXCEPT ![s] = "done"]
  /\ timer' = [timer EXCEPT ![s] = FALSE]
  /\ client' = bridgeCatchFinally(w, s).client
  /\ uv' = bridgeCatchFinally(w, s).uv
  /\ registry' = bridgeCatchFinally(w, s).registry
  /\ stats' = bridgeCatchFinally(w, s).stats

\* getUltravoxJoinUrl throws (request failed, timed out, or status not ok), or it
\* returns no joinUrl and new WebSocket(undefined) throws
BridgeJoinFail(s) ==
  /\ prog = "bridge"
  /\ pc[s] = "join"
  /\ BridgeFail(s, World)
  /\ UNCHANGED <<prog, handlers, sendsC, sendsU, nC, nU, env>>
  /\ UNCHANGED codecVars

\* getUltravoxJoinUrl returns a joinUrl; the upstream socket is created and the
\* handler waits for it to open, with the connect timer set
BridgeJoin(s) ==
  /\ prog = "bridge"
  /\ pc[s] = "join"
  /\ pc' = [pc EXCEPT ![s] = "wait"]
  /\ uv' = [uv EXCEPT ![s] = "CONNECTING"]
  /\ timer' = [timer EXCEPT ![s] = TRUE]
  /\ UNCHANGED <<prog, client, handlers, registry, stats, sendsC, sendsU, nC, nU, env>>
  /\ UNCHANGED codecVars

\* the connect timer fires: the promise rejects
BridgeTimeout(s) ==
  /\ prog = "bridge"
  /\ pc[s] = "wait"
  /\ timer[s]
  /\ BridgeFail(s, World)
  /\ UNCHANGED <<prog, handlers, sendsC, sendsU, nC, nU, env>>
  /\ UNCHANGED codecVars

\* the upstream handshake fails: 'error' rejects the promise, 'close' follows
BridgeUvConnectFail(s) ==
  /\ prog = "bridge"
  /\ pc[s] = "wait"
  /\ uv[s] = "CONNECTING"
  /\ BridgeFail(s, [World EXCEPT !.uv = [uv EXCEPT ![s] = "CLOSED"]])
  /\ UNCHANGED <<prog, handlers, sendsC, sendsU, nC, nU, env>>
  /\ UNCHANGED codecVars

\* the upstream socket opens: the promise resolves, the confirmation is sent, the
\* message listeners are installed and the handler waits for a 'close'; when the
\* send throws the handler leaves through catch and finally instead
BridgeUvOpen(s, threw) ==
  /\ prog = "bridge"
  /\ pc[s] = "wait"
  /\ uv[s] = "CONNECTING"
  /\ sendsC' = [sendsC EXCEPT ![s] = wsSend(@, Msg("connected", SendResult(client[s], threw)))]
  /\ IF SendResult(client[s], threw) = "threw"
     THEN /\ BridgeFail(s, [World EXCEPT !.uv = [uv EXCEPT ![s] = "OPEN"]])
          /\ UNCHANGED handlers
     ELSE /\ pc' = [pc EXCEPT ![s] = "run"]
          /\ uv' = [uv EXCEPT ![s] = "OPEN"]
          /\ timer' = [timer EXCEPT ![s] = FALSE]
          /\ handlers' = [handlers EXCEPT ![s] = TRUE]
          /\ UNCHANGED <<client, registry, stats>>
  /\ UNCHANGED <<prog, sendsU, nC, nU, env>>
  /\ UNCHANGED codecVars

\* the events of a handshake the server aborted with close(): only the first
\* 'error' listener is registered, and its promise is settled already
BridgeUvAborted(s) ==
  /\ prog = "bridge"
  /\ uv[s] = "ABORTING"
  /\ uv' = [uv EXCEPT ![s] = "CLOSED"]
  /\ UNCHANGED <<prog, pc, client, timer, handlers, registry, stats, sendsC, sendsU, nC, nU, env>>
  /\ UNCHANGED codecVars

\* mutant of bridgeRelayToUpstream: the readyState check is missing
bridgeRelayUnguarded(trace, id, kind, readyState, threw) ==
  wsSend(trace, Frame(id, kind, SendResult(readyState, threw)))

\* the send of setupClientHandlers' 'message' listener for one frame
bridgeRelayToUpstream(trace, id, kind, readyState, threw) ==
  IF readyState = "OPEN"
  THEN wsSend(trace, Frame(id, kind, SendResult(readyState, threw)))
  ELSE trace

\* setupClientHandlers: clientWs.on('message')
BridgeClientMessage(s, kind, threw) ==
  /\ prog = "bridge"
  /\ client[s] = "OPEN"
  /\ TotalFrames < env.frames
  /\ nC' = [nC EXCEPT ![s] = @ + 1]
  /\ LET calls == IF handlers[s]
                  THEN bridgeRelayToUpstream(sendsU[s], nC[s] + 1, kind, uv[s], threw)
                  ELSE sendsU[s]
         w == afterRelay(World, s, sendsU[s], calls)
     IN  /\ sendsU' = [sendsU EXCEPT ![s] = calls]
         /\ client' = w.client
         /\ uv' = w.uv
         /\ registry' = w.registry
         /\ stats' = w.stats
  /\ UNCHANGED <<prog, pc, timer, handlers, sendsC, nU, env>>
  /\ UNCHANGED codecVars

\* mutant of bridgeRelayToClient: the readyState check is missing
bridgeRelayToClientUnguarded(trace, id, kind, readyState, threw) ==
  wsSend(trace, Frame(id, kind, SendResult(readyState, threw)))

\* the send of setupUltravoxHandlers' 'message' listener for one frame
bridgeRelayToClient(trace, id, kind, readyState, threw) ==
  IF readyState = "OPEN"
  THEN wsSend(trace, Frame(id, kind, SendResult(readyState, threw)))
  ELSE trace

\* setupUltravoxHandlers: ultravoxWs.on('message')
BridgeUvMessage(s, kind, threw) ==
  /\ prog = "bridge"
  /\ uv[s] = "OPEN"
  /\ TotalFrames < env.frames
  /\ nU' = [nU EXCEPT ![s] = @ + 1]
  /\ LET calls == IF handlers[s]
                  THEN bridgeRelayToClient(sendsC[s], nU[s] + 1, kind, client[s], threw)
                  ELSE sendsC[s]
         w == afterRelay(World, s, sendsC[s], calls)
     IN  /\ sendsC' = [sendsC EXCEPT ![s] = calls]
         /\ client' = w.client
         /\ uv' = w.uv
         /\ registry' = w.registry
         /\ stats' = w.stats
  /\ UNCHANGED <<prog, pc, timer, handlers, sendsU, nC, env>>
  /\ UNCHANGED codecVars

\* the browser closes the client socket, or the client socket fails ('error' is
\* only logged); the socket is then closing
BridgeClientPeerClose(s) ==
  /\ prog = "bridge"
  /\ client[s] = "OPEN"
  /\ client' = [client EXCEPT ![s] = "CLOSING"]
  /\ UNCHANGED <<prog, pc, uv, timer, handlers, registry, stats, sendsC, sendsU, nC, nU, env>>
  /\ UNCHANGED codecVars

\* the client socket is closed: 'close' resolves the handler's wait, if it waits
BridgeClientClosed(s) ==
  /\ prog = "bridge"
  /\ client[s] = "CLOSING"
  /\ client' = [client EXCEPT ![s] = "CLOSED"]
  /\ IF pc[s] = "run"
     THEN /\ pc' = [pc EXCEPT ![s] = "done"]
          /\ uv' = cleanupConnection(World, s).uv
          /\ registry' = cleanupConnection(World, s).registry
          /\ stats' = cleanupConnection(World, s).stats
     ELSE UNCHANGED <<pc, uv, registry, stats>>
  /\ UNCHANGED <<prog, timer, handlers, sendsC, sendsU, nC, nU, env>>
  /\ UNCHANGED codecVars

\* the agent closes the upstream socket, or the open upstream socket fails
\* ('error' is only logged); the socket is then closing
BridgeUvPeerClose(s) ==
  /\ prog = "bridge"
  /\ uv[s] = "OPEN"
  /\ uv' = [uv EXCEPT ![s] = "CLOSING"]
  /\ UNCHANGED <<prog, pc, client, timer, handlers, registry, stats, sendsC, sendsU, nC, nU, env>>
  /\ UNCHANGED codecVars

\* the upstream socket is closed: 'close' resolves the handler's wait, if it waits
BridgeUvClosed(s) ==
  /\ prog = "bridge"
  /\ uv[s] = "CLOSING"
  /\ IF pc[s] = "run"
     THEN LET w == cleanupConnection([World EXCEPT !.uv = [uv EXCEPT ![s] = "CLOSED"]], s)
          IN  /\ pc' = [pc EXCEPT ![s] = "done"]
              /\ uv' = w.uv
              /\ registry' = w.registry
              /\ stats' = w.stats
     ELSE /\ uv' = [uv EXCEPT ![s] = "CLOSED"]
          /\ UNCHANGED <<pc, registry, stats>>
  /\ UNCHANGED <<prog, client, timer, handlers, sendsC, sendsU, nC, nU, env>>
  /\ UNCHANGED codecVars

----------------------------------------------------------------------------
(* The two servers as state machines.                                      *)

Init ==
  /\ prog \in {"meet", "bridge"}
  /\ pc = [s \in Sessions |-> "none"]
  /\ client = [s \in Sessions |-> "none"]
  /\ uv = [s \in Sessions |-> "none"]
  /\ timer = [s \in Sessions |-> FALSE]
  /\ handlers = [s \in Sessions |-> FALSE]
  /\ registry = {}
  /\ stats = [totalConnections |-> 0, activeConnections |-> 0]
  /\ sendsC = [s \in Sessions |-> <<>>]
  /\ sendsU = [s \in Sessions |-> <<>>]
  /\ nC = [s \in Sessions |-> 0]
  /\ nU = [s \in Sessions |-> 0]
  /\ env \in {[clients |-> {"s1"}, frames |-> MaxFrames],
              [clients |-> Sessions, frames |-> MaxFramesShared]}
  /\ cop = "off"
  /\ cx = 0
  /\ cy = NoOut
  /\ cz = NoOut
  /\ dsp = DspIdle

\* what the server and the ws library do on their own, once it is due
MeetInternal(s) ==
  \/ MeetFetchFail(s)
  \/ MeetFetchOk(s)
  \/ MeetJsonFail(s)
  \/ MeetNoJoinUrl(s)
  \/ MeetJoin(s)
  \/ MeetTimeout(s)
  \/ MeetUvAborted(s)
  \/ MeetUvClosed(s)
  \/ MeetClientClosed(s)

\* what the browser and the agent may do
MeetEnvironment(s) ==
  \/ MeetAccept(s)
  \/ MeetUvOpen(s)
  \/ MeetUvConnectFail(s)
  \/ MeetUvError(s)
  \/ MeetUvPeerClose(s)
  \/ MeetClientPeerClose(s)
  \/ MeetClientError(s)
  \/ \E kind \in FrameKinds, threw \in BOOLEAN, threwAgain \in BOOLEAN :
       MeetUvMessage(s, kind, threw, threwAgain)
  \/ \E kind \in FrameKinds, threw \in BOOLEAN : MeetClientMessage(s, kind, threw)

BridgeInternal(s) ==
  \/ BridgeJoinFail(s)
  \/ BridgeJoin(s)
  \/ BridgeTimeout(s)
  \/ BridgeUvAborted(s)
  \/ BridgeUvClosed(s)
  \/ BridgeClientClosed(s)

BridgeEnvironment(s) ==
  \/ BridgeAccept(s)
  \/ \E threw \in BOOLEAN : BridgeUvOpen(s, threw)
  \/ BridgeUvConnectFail(s)
  \/ BridgeUvPeerClose(s)
  \/ BridgeClientPeerClose(s)
  \/ \E kind \in FrameKinds, threw \in BOOLEAN : BridgeUvMessage(s, kind, threw)
  \/ \E kind \in FrameKinds, threw \in BOOLEAN : BridgeClientMessage(s, kind, threw)

Next ==
  \E s \in Sessions :
    \/ MeetInternal(s)
    \/ MeetEnvironment(s)
    \/ BridgeInternal(s)
    \/ BridgeEnvironment(s)

Spec == Init /\ [][Next]_vars

\* Every pending await settles, every timer that is set fires, and a socket that
\* is closing gets closed: the event loop never starves a due callback.
FairSpec ==
  /\ Spec
  /\ \A s \in Sessions : WF_vars(MeetInternal(s)) /\ WF_vars(BridgeInternal(s))

----------------------------------------------------------------------------
(* Lifecycle coupling                                                      *)

\* the {type:'connected'} messages written to the client of s
Delivered(s) == Len(SelectSeq(sendsC[s], LAMBDA e : e.msg = "connected" /\ e.res = "ok"))

\* the upstream socket of s does not exist or is closed
UpstreamGone(s) == uv[s] \in {"none", "CLOSED"}

\* C1: once the client socket of a session is closed - at any point after it was
\* accepted - the upstream socket is eventually closed (or was never opened) and
\* the session is eventually absent from the registry, for good.
C1_ClientCloseClosesUpstream ==
  \A s \in Sessions :
    [](client[s] = "CLOSED" => <>[](UpstreamGone(s) /\ s \notin registry))

\* C2: once the upstream socket of a session that became Active closes or fails,
\* the client socket is eventually closed as well and the session is removed
\* from the registry.
C2_UpstreamCloseClosesClient ==
  \A s \in Sessions :
    [](Delivered(s) > 0 /\ uv[s] \in {"CLOSING", "CLOSED"}
         => <>(client[s] = "CLOSED" /\ s \notin registry))

----------------------------------------------------------------------------
(* The `connected` notification                                            *)

\* nothing more will happen to session s: it was accepted, the handler is past
\* its awaits and both sockets are closed (or the upstream never existed)
SessionOver(s) ==
  /\ pc[s] \in {"run", "done"}
  /\ client[s] = "CLOSED"
  /\ UpstreamGone(s)

\* C3 (as claimed): over its whole lifetime a session writes `connected` to its
\* client exactly once - never zero times, never twice.
C3_ConnectedExactlyOnce ==
  \A s \in Sessions : SessionOver(s) => Delivered(s) = 1

\* the upstream socket of s opens in this step
UpstreamOpens(s) == uv[s] = "CONNECTING" /\ uv'[s] = "OPEN"

\* C3 (amended): `connected` is written to the client at most once per session,
\* and only in the step in which the upstream socket opens; it is written in that
\* step whenever the client socket is open then. A session whose upstream never
\* opens, or opens after the client is gone, gets none.
C3_ConnectedAtUpstreamOpen ==
  /\ [](\A s \in Sessions : Delivered(s) <= 1)
  /\ [][\A s \in Sessions :
          /\ Delivered(s)' # Delivered(s) => UpstreamOpens(s) /\ client[s] = "OPEN"
          /\ UpstreamOpens(s) /\ client[s] = "OPEN" => Delivered(s)' = Delivered(s) + 1]_vars

\* `connected` was written and the session is running with both sockets open
C3_Witness ==
  \E s \in Sessions :
    Delivered(s) = 1 /\ client[s] = "OPEN" /\ uv[s] = "OPEN" /\ pc[s] = "run"

\* C4: the `connected` notification is never emitted at a moment when the client
\* socket is already closing or closed (a session is Active only with both
\* endpoints open).
C4_ConnectedOnlyToOpenClient ==
  \A s \in Sessions :
    \A i \in DOMAIN sendsC[s] :
      sendsC[s][i].msg = "connected" => sendsC[s][i].res # "closed"

----------------------------------------------------------------------------
(* The relay                                                               *)

\* the ids of a sequence of frames increase strictly
Increasing(frames) ==
  \A i \in 1 .. Len(frames) : \A j \in 1 .. Len(frames) :
    i < j => frames[i].id < frames[j].id

\* C5: in each direction the frames written to the destination are, in order, the
\* images of a subsequence of the frames that arrived from the source: the ids
\* increase strictly (no reordering, no duplicate) and none exceeds the number of
\* frames that arrived.
C5_RelayOrdering ==
  \A s \in Sessions :
    /\ Increasing(SentFrames(sendsC[s]))
    /\ Increasing(SentFrames(sendsU[s]))
    /\ \A i \in DOMAIN sendsC[s] : sendsC[s][i].msg = "frame" => sendsC[s][i].id \in 1 .. nU[s]
    /\ \A i \in DOMAIN sendsU[s] : sendsU[s][i].msg = "frame" => sendsU[s][i].id \in 1 .. nC[s]

\* frames 1 and 3 of a client were relayed, in this order, frame 2 was not
C5_Witness ==
  \E s \in Sessions :
    LET f == SentFrames(sendsU[s])
    IN  Len(f) = 2 /\ f[1].id = 1 /\ f[2].id = 3

\* the send calls made for relayed frames on a trace
FrameCalls(trace) == SelectSeq(trace, IsFrame)

\* the calls a step added to a trace
Added(old, new) == SubSeq(new, Len(old) + 1, Len(new))

\* the sockets, the registry and the handler positions are as before the step
SessionsUntouched ==
  /\ client' = client
  /\ uv' = uv
  /\ registry' = registry
  /\ pc' = pc
  /\ stats' = stats

\* C6: a frame is sent towards an endpoint only if that endpoint is open when the
\* frame arrives; otherwise it is dropped for good - a send made in a step is for
\* the frame that arrived in that step - and a dropped frame closes nothing.
C6_DropWhenNotOpen ==
  [][\A s \in Sessions :
       /\ FrameCalls(sendsC[s])' # FrameCalls(sendsC[s]) =>
            /\ client[s] = "OPEN"
            /\ nU'[s] = nU[s] + 1
            /\ \A i \in DOMAIN Added(FrameCalls(sendsC[s]), FrameCalls(sendsC[s])') :
                 Added(FrameCalls(sendsC[s]), FrameCalls(sendsC[s])')[i].id = nU'[s]
       /\ FrameCalls(sendsU[s])' # FrameCalls(sendsU[s]) =>
            /\ uv[s] = "OPEN"
            /\ nC'[s] = nC[s] + 1
            /\ \A i \in DOMAIN Added(FrameCalls(sendsU[s]), FrameCalls(sendsU[s])') :
                 Added(FrameCalls(sendsU[s]), FrameCalls(sendsU[s])')[i].id = nC'[s]
       /\ nU'[s] # nU[s] /\ client[s] # "OPEN" =>
            sendsC'[s] = sendsC[s] /\ SessionsUntouched
       /\ nC'[s] # nC[s] /\ uv[s] # "OPEN" =>
            sendsU'[s] = sendsU[s] /\ SessionsUntouched]_vars

\* an upstream frame arrived for a client that was closed before the upstream
\* socket existed: nothing was sent, and the upstream socket is still open
C6_Witness ==
  \E s \in Sessions :
    /\ client[s] = "CLOSED"
    /\ uv[s] = "OPEN"
    /\ nU[s] > 0
    /\ FrameCalls(sendsC[s]) = <<>>

\* a send for a relayed frame threw, on either socket of s
SendThrew(s) ==
  \/ \E i \in DOMAIN sendsC[s] : sendsC[s][i].msg = "frame" /\ sendsC[s][i].res = "threw"
  \/ \E i \in DOMAIN sendsU[s] : sendsU[s][i].msg = "frame" /\ sendsU[s][i].res = "threw"

\* the number of sends for relayed frames that threw in session s
Thrown(s) ==
  Len(SelectSeq(sendsC[s], LAMBDA e : e.msg = "frame" /\ e.res = "threw"))
    + Len(SelectSeq(sendsU[s], LAMBDA e : e.msg = "frame" /\ e.res = "threw"))

----------------------------------------------------------------------------
(* Closing a session                                                       *)

\* C8: the close path of a session is idempotent: run twice from any reachable
\* state (cleanupConnection called twice with the same id; the client's 'error'
\* and 'close' listeners both firing) it leaves the registry, the counters and
\* every socket exactly as one run does.
C8_CloseIdempotent ==
  \A s \in Sessions :
    /\ cleanupConnection(cleanupConnection(World, s), s) = cleanupConnection(World, s)
    /\ bridgeCatchFinally(bridgeCatchFinally(World, s), s) = bridgeCatchFinally(World, s)
    /\ meetClientGone(meetClientGone(World, s), s) = meetClientGone(World, s)

\* a registered session whose close path changes the state when it runs, and a
\* session that it already ran for
C8_Witness ==
  \E s \in Sessions, r \in Sessions :
    /\ prog = "bridge"
    /\ s \in registry /\ uv[s] = "OPEN"
    /\ cleanupConnection(World, s) # World
    /\ pc[r] = "done" /\ r \notin registry

----------------------------------------------------------------------------
(* The connection counters of AudioBridge                                  *)

\* C35: in AudioBridge stats.activeConnections is the number of entries of the
\* connections registry and is never negative, and stats.totalConnections never
\* decreases and is at least activeConnections, whatever the order of accepts,
\* failures and closes.
C35_CountersMatchRegistry ==
  /\ [](prog = "bridge" =>
          /\ stats.activeConnections = Cardinality(registry)
          /\ stats.activeConnections >= 0
          /\ stats.totalConnections >= stats.activeConnections)
  /\ [][prog = "bridge" => stats'.totalConnections >= stats.totalConnections]_vars

\* two connections were accepted; one has failed and is out of the registry, the
\* other is still registered
C35_Witness ==
  /\ prog = "bridge"
  /\ stats.totalConnections = 2
  /\ stats.activeConnections = 1
  /\ \E s \in Sessions : registry = {s} /\ pc[s] = "run"
  /\ \E r \in Sessions : pc[r] = "done" /\ uv[r] = "none"

----------------------------------------------------------------------------
(* The order of the first messages of a session                            *)

\* the entry is a message that was written to the socket
IsWritten(e) == e.res = "ok"

\* C36: a relayed upstream frame (audio or text) is written to the client only
\* after the `connected` message of the session was written to it, and a send
\* call is made on the upstream socket only once that socket has opened.
C36_ConnectedBeforeRelay ==
  /\ [](\A s \in Sessions :
          \A i \in DOMAIN sendsC[s] :
            (IsFrame(sendsC[s][i]) /\ IsWritten(sendsC[s][i])) =>
               \E j \in 1 .. i - 1 :
                  sendsC[s][j].msg = "connected" /\ IsWritten(sendsC[s][j]))
  /\ [][\A s \in Sessions :
          sendsU'[s] # sendsU[s] => uv[s] \notin {"none", "CONNECTING", "ABORTING"}]_vars

\* a session in which the client got `connected` and then a relayed frame, and
\* the upstream got a frame of the client
C36_Witness ==
  \E s \in Sessions :
    /\ Len(sendsC[s]) >= 2
    /\ sendsC[s][1] = Msg("connected", "ok")
    /\ IsFrame(sendsC[s][2]) /\ IsWritten(sendsC[s][2])
    /\ \E k \in DOMAIN sendsU[s] : IsFrame(sendsU[s][k]) /\ IsWritten(sendsU[s][k])

\* C37: no send is attempted on a client socket that is not open: not for a
\* relayed frame and not for a message of the server itself (`connected`, the
\* error for a missing joinUrl, for the connect timeout, for an upstream error),
\* also when the client closes while the upstream is being set up.
C37_NoSendOnClosedClient ==
  \A s \in Sessions :
    \A i \in DOMAIN sendsC[s] : sendsC[s][i].res # "closed"

----------------------------------------------------------------------------
(* Sessions side by side                                                   *)

\* all there is about session s: the position of its handler, its sockets, its
\* timer and listeners, the sends made on its sockets, the frames that arrived
\* on them, and its place in the registry
SessionState(s) ==
  <<pc[s], client[s], uv[s], timer[s], handlers[s], sendsC[s], sendsU[s],
    nC[s], nU[s], s \in registry>>

\* C39: sessions are isolated. Whatever happens to one session - a frame from
\* its client or from its upstream, a failure, its close - leaves every other
\* session as it is: no send on a socket of another session, no socket of
\* another session closed, no other registry entry removed. The frames sent on
\* the upstream socket of a session are frames of its own client, and the
\* frames sent to its client are frames of its own upstream.
C39_SessionsIsolated ==
  /\ [][\A s \in Sessions, t \in Sessions :
          (s # t /\ SessionState(s)' # SessionState(s)) =>
             SessionState(t)' = SessionState(t)]_vars
  /\ [](\A s \in Sessions :
          /\ \A i \in DOMAIN sendsU[s] :
               IsFrame(sendsU[s][i]) => sendsU[s][i].id \in 1 .. nC[s]
          /\ \A i \in DOMAIN sendsC[s] :
               IsFrame(sendsC[s][i]) => sendsC[s][i].id \in 1 .. nU[s])

\* two sessions ran side by side; one relayed a frame of its client and is
\* closed and out of the registry, the other is still registered with both
\* sockets open and nothing sent on its upstream socket
C39_Witness ==
  \E s \in Sessions, t \in Sessions :
    /\ s # t
    /\ pc[s] \in {"run", "done"} /\ client[s] = "CLOSED" /\ s \notin registry
    /\ \E i \in DOMAIN sendsU[s] : IsFrame(sendsU[s][i]) /\ IsWritten(sendsU[s][i])
    /\ pc[t] = "run" /\ client[t] = "OPEN" /\ uv[t] = "OPEN" /\ t \in registry
    /\ sendsU[t] = <<>>

----------------------------------------------------------------------------
(* Failures while a session is set up                                      *)

\* the handler of s gives up before an upstream socket exists: the call-creation
\* request failed, or its answer could not be used
SetupFails(s) == pc[s] \in {"fetch", "json", "join"} /\ pc'[s] = "done"

\* C25: when the call-creation request fails or its answer carries no joinUrl,
\* a client whose socket is open is sent one JSON message carrying `error` and
\* `details` and is then closed; no upstream socket is opened and the session is
\* not in the registry afterwards.
C25_SetupFailureReported ==
  [][\A s \in Sessions :
       SetupFails(s) /\ client[s] = "OPEN" =>
         /\ sendsC'[s] = Append(sendsC[s], Msg("error", "ok"))
         /\ client'[s] = "CLOSING"
         /\ uv'[s] = "none"
         /\ s \notin registry']_vars

\* the entry is a JSON message with an `error` field
IsError(e) == e.msg \in {"error", "errorOnly"}

\* the connect timer of s fires while the upstream socket is still connecting
\* (the other steps that clear the timer of a connecting socket open it or
\* report that the handshake failed, so the socket is open, closing or closed
\* after them)
TimerFires(s) ==
  /\ timer[s] /\ ~timer'[s]
  /\ uv[s] = "CONNECTING"
  /\ uv'[s] \in {"CONNECTING", "ABORTING"}

\* C26: when the connect timer fires before the upstream socket has opened, a
\* client whose socket is open is sent an error JSON and closed and close() is
\* called on the upstream socket; the upstream socket then gets closed and the
\* session leaves the registry. When the upstream socket opens first the timer
\* is cancelled: no timer is pending for an upstream socket that is open.
C26_ConnectTimeout ==
  /\ [][\A s \in Sessions :
          TimerFires(s) =>
            /\ uv'[s] = "ABORTING"
            /\ client[s] = "OPEN" =>
                 /\ Len(sendsC'[s]) = Len(sendsC[s]) + 1
                 /\ IsError(sendsC'[s][Len(sendsC'[s])])
                 /\ sendsC'[s][Len(sendsC'[s])].res = "ok"
                 /\ client'[s] = "CLOSING"]_vars
  /\ \A s \in Sessions : uv[s] = "ABORTING" ~> (uv[s] = "CLOSED" /\ s \notin registry)
  /\ [](\A s \in Sessions : uv[s] = "OPEN" => ~timer[s])

\* the JSON `error` messages written to the client of s
Errors(s) == Len(SelectSeq(sendsC[s], LAMBDA e : IsError(e) /\ e.res = "ok"))

\* a connection-level error happens to s in this step: the setup fails, the
\* connect timer fires, or the upstream handshake fails
ConnectionError(s) ==
  \/ SetupFails(s)
  \/ TimerFires(s)
  \/ uv[s] = "CONNECTING" /\ uv'[s] = "CLOSED"

\* C27: a connection-level error is surfaced to the client as exactly one JSON
\* `error` message per session: a client whose socket is open when the error
\* happens has been sent one error message after that step, no client is ever
\* sent two, and after an error message the session terminates.
C27_ErrorSurfacedOnce ==
  /\ [](\A s \in Sessions : Errors(s) <= 1)
  /\ [][\A s \in Sessions :
          ConnectionError(s) /\ client[s] = "OPEN" => Errors(s)' = 1]_vars
  /\ \A s \in Sessions :
       Errors(s) > 0 ~> (client[s] = "CLOSED" /\ UpstreamGone(s) /\ s \notin registry)

----------------------------------------------------------------------------
(* The lifecycle of a session                                              *)

\* both sockets of s are open and the handler is past its awaits
Active(s) == pc[s] = "run" /\ client[s] = "OPEN" /\ uv[s] = "OPEN"

\* the session is closed: handler past its awaits, both sockets closed (or the
\* upstream never created), not in the registry
Closed(s) == SessionOver(s) /\ s \notin registry

\* the position of s in Accepted -> UpstreamConnecting -> Active -> Closing ->
\* Closed, as a number (0: no connection yet)
Phase(s) ==
  CASE pc[s] = "none" -> 0
    [] pc[s] \in {"fetch", "json", "join"} -> 1
    [] pc[s] \in {"wait", "run"} /\ uv[s] = "CONNECTING" -> 2
    [] Active(s) -> 3
    [] Closed(s) -> 5
    [] OTHER -> 4

\* C29: the lifecycle of a session is forward-only: no step takes a session to
\* an earlier phase, so a session that left Active is never Active again and a
\* session that is Closed stays Closed and out of the registry; and a frame is
\* relayed only for a session that is Active when the frame arrives.
C29_LifecycleForwardOnly ==
  [][\A s \in Sessions :
       /\ Phase(s)' >= Phase(s)
       /\ Closed(s) => s \notin registry'
       /\ ~Active(s) =>
            /\ FrameCalls(sendsC[s])' = FrameCalls(sendsC[s])
            /\ FrameCalls(sendsU[s])' = FrameCalls(sendsU[s])]_vars

\* an AudioBridge session that was Active and relayed a frame is Closed, and a
\* frame that arrived after it had left Active was not relayed
C29_Witness ==
  \E s \in Sessions :
    /\ prog = "bridge"
    /\ Closed(s)
    /\ Delivered(s) = 1
    /\ Len(FrameCalls(sendsC[s])) + Len(FrameCalls(sendsU[s])) > 0
    /\ Len(FrameCalls(sendsC[s])) + Len(FrameCalls(sendsU[s])) < nC[s] + nU[s]

----------------------------------------------------------------------------
(* Text messages. A text message is the sequence of its UTF-8 bytes. The   *)
(* ws library hands a text message to the 'message' listener as a string   *)
(* (ws 7) or as a Buffer (ws 8); the version installed is not part of the  *)
(* sources, so the form is the environment's choice. send() writes a       *)
(* string as a text frame and anything else as a binary frame.             *)

\* the characters a text is built from: { } 1 x
TextChars == {123, 125, 49, 120}

\* longest text message
MaxTextLen == 3

Texts == UNION {[1 .. n -> TextChars] : n \in 0 .. MaxTextLen}

\* the value the 'message' listener gets for a text message
TextForms == {"string", "Buffer"}

\* JSON.parse(data) throws, for a text over TextChars: the JSON texts are
\* {} and the numbers 1, 11, 111, ...
JSONparseThrows(text) ==
  ~ \/ text = <<123, 125>>
    \/ Len(text) > 0 /\ \A i \in DOMAIN text : text[i] = 49

\* ws.send(data) on an open socket: the frame written (or not, if it threw)
wsSendData(form, data, threw) ==
  [binary |-> form # "string", data |-> data, res |-> IF threw THEN "threw" ELSE "ok"]

\* AI-Meet ultravoxWs.on('message'), the branch for data that is no
\* ArrayBuffer: the send calls made on the client socket
meetTextToClient(data, form, threw, threwAgain) ==
  IF JSONparseThrows(data) THEN <<wsSendData(form, data, threw)>>
  ELSE IF threw THEN <<wsSendData(form, data, TRUE), wsSendData(form, data, threwAgain)>>
  ELSE <<wsSendData(form, data, FALSE)>>

\* AI-Meet clientWs.on('message'), the branch for data that is no ArrayBuffer
meetTextToUpstream(data, form, threw) == <<wsSendData(form, data, threw)>>

\* AudioBridge setupClientHandlers 'message' listener for a text message: a
\* Buffer is taken for audio, a string is sent as it is
bridgeTextToUpstream(data, form, lastInputSample, tanh, threw) ==
  IF form = "Buffer"
  THEN <<wsSendData("Buffer", bridgeConvertPcmuToPcm16(data, lastInputSample, tanh).buffer, threw)>>
  ELSE <<wsSendData("string", data, threw)>>

\* AudioBridge setupUltravoxHandlers 'message' listener for a text message
bridgeTextToClient(data, form, lastOutputSample, tanh, threw) ==
  IF form = "Buffer"
  THEN <<wsSendData("Buffer", bridgeConvertPcm16ToPcmu(data, lastOutputSample, tanh).buffer, threw)>>
  ELSE <<wsSendData("string", data, threw)>>

TextInit ==
  /\ ServersIdle
  /\ cop = "off"
  /\ cx = 0
  /\ cy = NoOut
  /\ cz = NoOut
  /\ \E op \in {"clientText", "ultravoxText"}, p \in {"meet", "bridge"},
        data \in Texts, form \in TextForms :
       dsp = [op |-> op, prog |-> p, data |-> data, form |-> form, calls |-> <<>>]

\* AI-Meet: a text message of the client arrives, the upstream socket open
MeetClientText ==
  /\ dsp.op = "clientText"
  /\ dsp.prog = "meet"
  /\ \E threw \in BOOLEAN :
       dsp' = [dsp EXCEPT !.op = "clientTextDone",
                          !.calls = meetTextToUpstream(dsp.data, dsp.form, threw)]
  /\ UNCHANGED <<cop, cx, cy, cz>>
  /\ UNCHANGED srvVars

\* AI-Meet: a text message of the agent arrives, the client socket open
MeetUltravoxText ==
  /\ dsp.op = "ultravoxText"
  /\ dsp.prog = "meet"
  /\ \E threw \in BOOLEAN, threwAgain \in BOOLEAN :
       dsp' = [dsp EXCEPT !.op = "ultravoxTextDone",
                          !.calls = meetTextToClient(dsp.data, dsp.form, threw, threwAgain)]
  /\ UNCHANGED <<cop, cx, cy, cz>>
  /\ UNCHANGED srvVars

\* AudioBridge: a text message of the client arrives, the upstream socket
\* open, in a session that has handled no audio yet
BridgeClientText ==
  /\ dsp.op = "clientText"
  /\ dsp.prog = "bridge"
  /\ LET gated == applyNoiseGate([i \in DOMAIN dsp.data |-> ulawToLinear(dsp.data[i])], 50)
     IN  \E tanh \in [AboveLimit(gated, 28000) -> TanhResults], threw \in BOOLEAN :
           dsp' = [dsp EXCEPT !.op = "clientTextDone",
                              !.calls = bridgeTextToUpstream(dsp.data, dsp.form, NumZero,
                                                             tanh, threw)]
  /\ UNCHANGED <<cop, cx, cy, cz>>
  /\ UNCHANGED srvVars

\* AudioBridge: a text message of the agent arrives, the client socket open,
\* in a session that has handled no audio yet
BridgeUltravoxText ==
  /\ dsp.op = "ultravoxText"
  /\ dsp.prog = "bridge"
  /\ LET gated == applyNoiseGate(bridgeLinearSamples(dsp.data), 50)
     IN  \E tanh \in [AboveLimit(gated, 28000) -> TanhResults], threw \in BOOLEAN :
           dsp' = [dsp EXCEPT !.op = "ultravoxTextDone",
                              !.calls = bridgeTextToClient(dsp.data, dsp.form, NumZero,
                                                           tanh, threw)]
  /\ UNCHANGED <<cop, cx, cy, cz>>
  /\ UNCHANGED srvVars

TextNext ==
  MeetClientText \/ MeetUltravoxText \/ BridgeClientText \/ BridgeUltravoxText

SpecText == TextInit /\ [][TextNext]_vars

\* the send calls of the handled text message that did not throw
WrittenCalls == SelectSeq(dsp.calls, LAMBDA c : c.res = "ok")

\* C22: a text message received from one endpoint while the other is open is
\* sent to the other endpoint as a text frame of identical content - whether
\* or not it parses as JSON - and never as a binary frame: every send call
\* carries the text, and unless a send throws there is exactly one.
C22_TextRelayedVerbatim ==
  dsp.op \in {"clientTextDone", "ultravoxTextDone"} =>
    /\ \A k \in DOMAIN dsp.calls : ~dsp.calls[k].binary /\ dsp.calls[k].data = dsp.data
    /\ Len(WrittenCalls) <= 1
    /\ Len(WrittenCalls) = Len(dsp.calls) => Len(dsp.calls) = 1

----------------------------------------------------------------------------
(* Shutdown of AudioBridge. wss.close(callback) stops the listener; ws 7   *)
(* also terminates every client of the server, ws 8 leaves them connected. *)
(* The callback runs once the HTTP server has closed, which is when no     *)
(* connection is left. The version installed is not part of the sources,   *)
(* so it is the environment's choice.                                      *)

WsVersions == {"ws7", "ws8"}

\* the client sockets after wss.close(): terminate() destroys the connection of
\* every client that is not closed yet, its 'close' event follows
wssClose(version, sockets) ==
  IF version = "ws7"
  THEN [s \in DOMAIN sockets |-> IF sockets[s] = "OPEN" THEN "CLOSING" ELSE sockets[s]]
  ELSE sockets

ShutdownInit ==
  /\ prog = "bridge"
  /\ pc = [s \in Sessions |-> "none"]
  /\ client = [s \in Sessions |-> "none"]
  /\ uv = [s \in Sessions |-> "none"]
  /\ timer = [s \in Sessions |-> FALSE]
  /\ handlers = [s \in Sessions |-> FALSE]
  /\ registry = {}
  /\ stats = [totalConnections |-> 0, activeConnections |-> 0]
  /\ sendsC = [s \in Sessions |-> <<>>]
  /\ sendsU = [s \in Sessions |-> <<>>]
  /\ nC = [s \in Sessions |-> 0]
  /\ nU = [s \in Sessions |-> 0]
  /\ env = [clients |-> Sessions, frames |-> 0]
  /\ cop = "off"
  /\ cx = 0
  /\ cy = NoOut
  /\ cz = NoOut
  /\ \E version \in WsVersions : dsp = [op |-> "serving", ws |-> version]

\* wss.on('connection'): only a listening server accepts
ShutdownAccept(s) == dsp.op = "serving" /\ BridgeAccept(s)

\* the handler and the ws library go on for as long as the process lives
ShutdownInternal(s) == dsp.op # "exit0" /\ BridgeInternal(s)

\* what the browser and the agent may do while the process lives
ShutdownEnvironment(s) ==
  /\ dsp.op # "exit0"
  /\ \/ \E threw \in BOOLEAN : BridgeUvOpen(s, threw)
     \/ BridgeUvConnectFail(s)
     \/ BridgeUvPeerClose(s)
     \/ BridgeClientPeerClose(s)

\* SIGINT or SIGTERM: shutdown() prints the statistics and calls wss.close
Shutdown ==
  /\ dsp.op = "serving"
  /\ dsp' = [dsp EXCEPT !.op = "closing"]
  /\ client' = wssClose(dsp.ws, client)
  /\ UNCHANGED <<prog, pc, uv, timer, handlers, registry, stats, sendsC, sendsU, nC, nU, env>>
  /\ UNCHANGED <<cop, cx, cy, cz>>

\* the HTTP server has closed - no connection is left - and the callback of
\* wss.close runs: process.exit(0)
ShutdownExit ==
  /\ dsp.op = "closing"
  /\ \A s \in Sessions : client[s] \in {"none", "CLOSED"}
  /\ dsp' = [dsp EXCEPT !.op = "exit0"]
  /\ UNCHANGED srvVars
  /\ UNCHANGED <<cop, cx, cy, cz>>

ShutdownNext ==
  \/ \E s \in Sessions :
       \/ ShutdownAccept(s)
       \/ ShutdownInternal(s)
       \/ ShutdownEnvironment(s)
  \/ Shutdown
  \/ ShutdownExit

SpecShutdown == ShutdownInit /\ [][ShutdownNext]_vars

\* Every pending await settles, every timer that is set fires, a socket that is
\* closing gets closed, and the callback of wss.close runs once it is due.
FairShutdown ==
  /\ SpecShutdown
  /\ \A s \in Sessions : WF_vars(ShutdownInternal(s))
  /\ WF_vars(ShutdownExit)

\* C28: after SIGINT or SIGTERM no new connection is accepted, every session
\* that is active then and has a client that is not closed yet gets closed (its
\* client socket closed, close() called on its upstream socket, the session out
\* of the registry), and the process eventually exits with code 0, also when
\* sessions were active.
C28_GracefulShutdown ==
  /\ [][\A s \in Sessions : dsp.op # "serving" => ~(pc[s] = "none" /\ pc'[s] # "none")]_vars
  /\ \A s \in Sessions :
       (dsp.op = "closing" /\ pc[s] = "run" /\ client[s] # "CLOSED") ~>
          /\ client[s] = "CLOSED"
          /\ uv[s] \in {"CLOSING", "CLOSED"}
          /\ s \notin registry
  /\ dsp.op = "closing" ~> dsp.op = "exit0"

----------------------------------------------------------------------------
(* The smoother tails of AudioBridge. Every connection has its own          *)
(* connectionState, which the 'message' listeners of its two sockets pass   *)
(* to the converters.                                                       *)

\* frames handled in one run
MaxTailFrames == 2

\* client frames: none, one and two PCMU bytes
TailClientFrames == {<<>>, <<0>>, <<213>>, <<255, 0>>}

\* upstream frames: a byte without partner, one and two PCM16 samples
TailUltravoxFrames == {<<1>>, Int16Bytes(<<-5000>>), Int16Bytes(<<32767, 101>>)}

\* the connectionState handleConnection creates, as far as the converters use it
NewConnectionState == [lastInputSample |-> NumZero, lastOutputSample |-> NumZero]

\* mutant of convertPcmuToPcm16State: one tail serves both directions
convertPcmuToPcm16SharesTail(connectionState, pcmuBuffer, tanh) ==
  [connectionState EXCEPT
     !.lastOutputSample =
        bridgeConvertPcmuToPcm16(pcmuBuffer, connectionState.lastOutputSample, tanh).lastSample]

\* the connectionState after convertPcmuToPcm16(pcmuBuffer, connectionState)
convertPcmuToPcm16State(connectionState, pcmuBuffer, tanh) ==
  [connectionState EXCEPT
     !.lastInputSample =
        bridgeConvertPcmuToPcm16(pcmuBuffer, connectionState.lastInputSample, tanh).lastSample]

\* the connectionState after convertPcm16ToPcmu(pcm16Buffer, connectionState)
convertPcm16ToPcmuState(connectionState, pcm16Buffer, tanh) ==
  [connectionState EXCEPT
     !.lastOutputSample =
        bridgeConvertPcm16ToPcmu(pcm16Buffer, connectionState.lastOutputSample, tanh).lastSample]

\* this.connections, and the event handled last
TailsInit ==
  /\ ServersIdle
  /\ cop = "off"
  /\ cx = 0
  /\ cy = NoOut
  /\ cz = NoOut
  /\ dsp = [op |-> "tails", connections |-> [t \in {} |-> NewConnectionState],
            event |-> [on |-> "none", id |-> "none"], frames |-> 0]

\* handleConnection: a new connection gets its connectionState
TailsConnection(s) ==
  /\ dsp.op = "tails"
  /\ s \notin DOMAIN dsp.connections
  /\ dsp' = [dsp EXCEPT
               !.connections = [t \in DOMAIN dsp.connections \cup {s} |->
                                  IF t = s THEN NewConnectionState ELSE dsp.connections[t]],
               !.event = [on |-> "connection", id |-> s]]
  /\ UNCHANGED <<cop, cx, cy, cz>>
  /\ UNCHANGED srvVars

\* clientWs.on('message') of connection s, for a binary frame
TailsClientFrame(s, data) ==
  /\ dsp.op = "tails"
  /\ s \in DOMAIN dsp.connections
  /\ dsp.frames < MaxTailFrames
  /\ LET gated == applyNoiseGate([i \in DOMAIN data |-> ulawToLinear(data[i])], 50)
     IN  \E tanh \in [AboveLimit(gated, 28000) -> TanhResults] :
           dsp' = [dsp EXCEPT
                     !.connections[s] = convertPcmuToPcm16State(dsp.connections[s], data, tanh),
                     !.event = [on |-> "clientWs", id |-> s],
                     !.frames = @ + 1]
  /\ UNCHANGED <<cop, cx, cy, cz>>
  /\ UNCHANGED srvVars

\* ultravoxWs.on('message') of connection s, for a binary frame
TailsUltravoxFrame(s, data) ==
  /\ dsp.op = "tails"
  /\ s \in DOMAIN dsp.connections
  /\ dsp.frames < MaxTailFrames
  /\ LET gated == applyNoiseGate(bridgeLinearSamples(data), 50)
     IN  \E tanh \in [AboveLimit(gated, 28000) -> TanhResults] :
           dsp' = [dsp EXCEPT
                     !.connections[s] = convertPcm16ToPcmuState(dsp.connections[s], data, tanh),
                     !.event = [on |-> "ultravoxWs", id |-> s],
                     !.frames = @ + 1]
  /\ UNCHANGED <<cop, cx, cy, cz>>
  /\ UNCHANGED srvVars

TailsNext ==
  \E s \in Sessions :
    \/ TailsConnection(s)
    \/ \E data \in TailClientFrames : TailsClientFrame(s, data)
    \/ \E data \in TailUltravoxFrames : TailsUltravoxFrame(s, data)

SpecTails == TailsInit /\ [][TailsNext]_vars

\* the tails of every connection but s are as before the step
OtherTailsUnchanged(s) ==
  \A t \in DOMAIN dsp.connections \ {s} : dsp'.connections[t] = dsp.connections[t]

\* C30: the smoother tails are per direction and per session: handling a client
\* binary frame leaves the session's lastOutputSample as it was, handling an
\* upstream binary frame leaves its lastInputSample as it was, neither changes a
\* tail of another session, and a new session starts with both tails equal to 0.
C30_TailsPerDirection ==
  [][/\ dsp'.event.on = "clientWs" =>
          /\ dsp'.connections[dsp'.event.id].lastOutputSample
               = dsp.connections[dsp'.event.id].lastOutputSample
          /\ OtherTailsUnchanged(dsp'.event.id)
     /\ dsp'.event.on = "ultravoxWs" =>
          /\ dsp'.connections[dsp'.event.id].lastInputSample
               = dsp.connections[dsp'.event.id].lastInputSample
          /\ OtherTailsUnchanged(dsp'.event.id)
     /\ dsp'.event.on = "connection" =>
          /\ dsp'.connections[dsp'.event.id] = NewConnectionState
          /\ NewConnectionState.lastInputSample = NumFromInt(0)
          /\ NewConnectionState.lastOutputSample = NumFromInt(0)
          /\ OtherTailsUnchanged(dsp'.event.id)]_vars

\* one session handled a client frame and has only its inbound tail changed,
\* the other one then handled an upstream frame and has only its outbound tail
\* changed
C30_Witness ==
  /\ dsp.op = "tails"
  /\ DOMAIN dsp.connections = Sessions
  /\ dsp.event = [on |-> "ultravoxWs", id |-> "s2"]
  /\ dsp.connections["s1"].lastInputSample # NumZero
  /\ dsp.connections["s1"].lastOutputSample = NumZero
  /\ dsp.connections["s2"].lastInputSample = NumZero
  /\ dsp.connections["s2"].lastOutputSample # NumZero


----------------------------------------------------------------------------
(* Startup. AudioBridge reads API_KEY when the module is loaded and start() *)
(* checks it before it creates the listener; the AI-Meet backend creates    *)
(* its listener while the module is loaded and reads ULTRAVOX_API_KEY only  *)
(* when it builds the headers of the call-creation POST.                    *)

\* the key in the environment of the process: not set, set to "", or set
ApiKeys == {"undefined", "", "key"}

\* JavaScript: !key
KeyMissing(key) == key \in {"undefined", ""}

StartupInit ==
  /\ prog \in {"meet", "bridge"}
  /\ pc = [s \in Sessions |-> "none"]
  /\ client = [s \in Sessions |-> "none"]
  /\ uv = [s \in Sessions |-> "none"]
  /\ timer = [s \in Sessions |-> FALSE]
  /\ handlers = [s \in Sessions |-> FALSE]
  /\ registry = {}
  /\ stats = [totalConnections |-> 0, activeConnections |-> 0]
  /\ sendsC = [s \in Sessions |-> <<>>]
  /\ sendsU = [s \in Sessions |-> <<>>]
  /\ nC = [s \in Sessions |-> 0]
  /\ nU = [s \in Sessions |-> 0]
  /\ env = [clients |-> Sessions, frames |-> 0]
  /\ cop = "off"
  /\ cx = 0
  /\ cy = NoOut
  /\ cz = NoOut
  /\ \E key \in ApiKeys : dsp = [op |-> "boot", apiKey |-> key]

\* AudioBridge.start(): without a key process.exit(1), otherwise the listener
BridgeStart ==
  /\ prog = "bridge"
  /\ dsp.op = "boot"
  /\ dsp' = [dsp EXCEPT !.op = IF KeyMissing(dsp.apiKey) THEN "exit1" ELSE "listening"]
  /\ UNCHANGED srvVars
  /\ UNCHANGED <<cop, cx, cy, cz>>

\* AI-Meet backend: new WebSocketServer({port: 3001, ...}) at module level
MeetStart ==
  /\ prog = "meet"
  /\ dsp.op = "boot"
  /\ dsp' = [dsp EXCEPT !.op = "listening"]
  /\ UNCHANGED srvVars
  /\ UNCHANGED <<cop, cx, cy, cz>>

\* wss.on('connection'): a listening server accepts, and the handler goes on
\* to the call-creation POST with the key of the environment in its headers
StartupAccept(s) == dsp.op = "listening" /\ (MeetAccept(s) \/ BridgeAccept(s))

StartupInternal(s) == dsp.op = "listening" /\ (MeetInternal(s) \/ BridgeInternal(s))

\* what the browser and the agent may do with a listening server
StartupEnvironment(s) ==
  /\ dsp.op = "listening"
  /\ \/ MeetUvOpen(s)
     \/ MeetUvConnectFail(s)
     \/ MeetUvError(s)
     \/ MeetUvPeerClose(s)
     \/ MeetClientPeerClose(s)
     \/ MeetClientError(s)
     \/ \E threw \in BOOLEAN : BridgeUvOpen(s, threw)
     \/ BridgeUvConnectFail(s)
     \/ BridgeUvPeerClose(s)
     \/ BridgeClientPeerClose(s)

StartupNext ==
  \/ BridgeStart
  \/ MeetStart
  \/ \E s \in Sessions :
       \/ StartupAccept(s)
       \/ StartupInternal(s)
       \/ StartupEnvironment(s)

SpecStartup == StartupInit /\ [][StartupNext]_vars

\* C31: without an API key the process never listens - it is about to start or
\* has exited with code 1 - so no connection is accepted and no call-creation
\* request is issued.
C31_MissingKeyIsFatal ==
  KeyMissing(dsp.apiKey) =>
    /\ dsp.op \in {"boot", "exit1"}
    /\ \A s \in Sessions : pc[s] = "none" /\ client[s] = "none"

----------------------------------------------------------------------------
(* The byte counters of an AudioBridge session. The 'message' listeners    *)
(* add message.length to connectionState.bytesReceived and .bytesSent;     *)
(* `received` and `written` count the bytes that came in on the client     *)
(* socket and the bytes that went out on it.                               *)

\* messages handled in one run
MaxCountedFrames == 3

\* what the client sends: binary frames of no, one and two PCMU bytes
CountedClientFrames == {<<>>, <<213>>, <<255, 0>>}

\* what the agent sends: binary frames of one byte, of one and of two PCM16
\* samples, and the text {} delivered as a string
CountedUltravoxMessages ==
  {[form |-> "Buffer", data |-> <<1>>],
   [form |-> "Buffer", data |-> Int16Bytes(<<-5000>>)],
   [form |-> "Buffer", data |-> Int16Bytes(<<32767, 101>>)],
   [form |-> "string", data |-> <<123, 125>>]}

\* the connectionState handleConnection creates, as far as the listeners use it
CountedConnectionState ==
  [bytesReceived |-> 0, bytesSent |-> 0,
   lastInputSample |-> NumZero, lastOutputSample |-> NumZero]

CountersInit ==
  /\ ServersIdle
  /\ cop = "off"
  /\ cx = 0
  /\ cy = NoOut
  /\ cz = NoOut
  /\ dsp = [op |-> "counting", clientWs |-> "OPEN",
            connectionState |-> CountedConnectionState,
            received |-> 0, written |-> 0, frames |-> 0]

\* clientWs.on("message") for a binary frame
CountersClientMessage(data) ==
  /\ dsp.op = "counting"
  /\ dsp.clientWs = "OPEN"
  /\ dsp.frames < MaxCountedFrames
  /\ LET gated == applyNoiseGate([i \in DOMAIN data |-> ulawToLinear(data[i])], 50)
     IN  \E tanh \in [AboveLimit(gated, 28000) -> TanhResults] :
           dsp' = [dsp EXCEPT
                     !.connectionState =
                        [convertPcmuToPcm16State(@, data, tanh) EXCEPT
                           !.bytesReceived = @ + Len(data)],
                     !.received = @ + Len(data),
                     !.frames = @ + 1]
  /\ UNCHANGED <<cop, cx, cy, cz>>
  /\ UNCHANGED srvVars

\* the bytes clientWs.send puts on the socket
bytesWritten(readyState, buffer, threw) ==
  IF SendResult(readyState, threw) = "ok" THEN Len(buffer) ELSE 0

\* ultravoxWs.on("message"): a Buffer is converted and the PCMU buffer sent, a
\* string is sent as it is, either only to an open client
CountersUltravoxMessage(message, threw) ==
  /\ dsp.op = "counting"
  /\ dsp.frames < MaxCountedFrames
  /\ LET gated == applyNoiseGate(bridgeLinearSamples(message.data), 50)
     IN  \E tanh \in [AboveLimit(gated, 28000) -> TanhResults] :
           LET pcmuBuffer ==
                 bridgeConvertPcm16ToPcmu(message.data,
                                          dsp.connectionState.lastOutputSample, tanh).buffer
           IN  dsp' = [dsp EXCEPT
                         !.connectionState =
                            IF message.form = "Buffer"
                            THEN [convertPcm16ToPcmuState(@, message.data, tanh) EXCEPT
                                    !.bytesSent = @ + Len(message.data)]
                            ELSE [@ EXCEPT !.bytesSent = @ + Len(message.data)],
                         !.written =
                            @ + bytesWritten(dsp.clientWs,
                                             IF message.form = "Buffer" THEN pcmuBuffer
                                             ELSE message.data, threw),
                         !.frames = @ + 1]
  /\ UNCHANGED <<cop, cx, cy, cz>>
  /\ UNCHANGED srvVars

\* the client disconnects; the upstream socket goes on delivering what it has
CountersClientGone ==
  /\ dsp.op = "counting"
  /\ dsp.clientWs = "OPEN"
  /\ dsp' = [dsp EXCEPT !.clientWs = "CLOSED"]
  /\ UNCHANGED <<cop, cx, cy, cz>>
  /\ UNCHANGED srvVars

CountersNext ==
  \/ \E data \in CountedClientFrames : CountersClientMessage(data)
  \/ \E message \in CountedUltravoxMessages, threw \in BOOLEAN :
       CountersUltravoxMessage(message, threw)
  \/ CountersClientGone

SpecCounters == CountersInit /\ [][CountersNext]_vars

\* C32: a session's bytesSent is the number of bytes sent to the client so
\* far, and its bytesReceived the number of bytes received from the client.
C32_CountersMatchTraffic ==
  dsp.op = "counting" =>
    /\ dsp.connectionState.bytesSent = dsp.written
    /\ dsp.connectionState.bytesReceived = dsp.received

----------------------------------------------------------------------------
(* Keep-alive. The AI-Meet backend ends its connection handler with a      *)
(* 30 s interval that pings the client; the only 30 s interval of          *)
(* AudioBridge is the one start() sets for the statistics.                 *)

\* 30 s periods that elapse in one run
MaxTicks == 2

KeepAliveInit ==
  /\ prog \in {"meet", "bridge"}
  /\ pc = [s \in Sessions |-> "none"]
  /\ client = [s \in Sessions |-> "none"]
  /\ uv = [s \in Sessions |-> "none"]
  /\ timer = [s \in Sessions |-> FALSE]
  /\ handlers = [s \in Sessions |-> FALSE]
  /\ registry = {}
  /\ stats = [totalConnections |-> 0, activeConnections |-> 0]
  /\ sendsC = [s \in Sessions |-> <<>>]
  /\ sendsU = [s \in Sessions |-> <<>>]
  /\ nC = [s \in Sessions |-> 0]
  /\ nU = [s \in Sessions |-> 0]
  /\ env = [clients |-> Sessions, frames |-> 0]
  /\ cop = "off"
  /\ cx = 0
  /\ cy = NoOut
  /\ cz = NoOut
  /\ dsp = [op |-> "listening", apiKey |-> "key",
            cleared |-> [s \in Sessions |-> FALSE],
            pings |-> [s \in Sessions |-> 0],
            ticks |-> 0, last |-> "none", failed |-> FALSE]

\* AI-Meet: the callback of pingInterval of session s. The interval exists once
\* the handler has installed the client listeners, until clearInterval; the
\* 'close' listener that clears it has no other effect than the else branch.
\* A ping that cannot be written makes the socket emit 'error' and close.
MeetPingTick(s, failed) ==
  /\ prog = "meet"
  /\ handlers[s]
  /\ ~dsp.cleared[s]
  /\ dsp.ticks < MaxTicks
  /\ IF client[s] = "OPEN"
     THEN /\ dsp' = [dsp EXCEPT !.pings[s] = @ + 1, !.ticks = @ + 1,
                                !.last = s, !.failed = failed]
          /\ IF failed
             THEN /\ client' = [client EXCEPT ![s] = "CLOSING"]
                  /\ uv' = meetClientGone(World, s).uv
                  /\ registry' = meetClientGone(World, s).registry
             ELSE UNCHANGED <<client, uv, registry>>
     ELSE /\ dsp' = [dsp EXCEPT !.cleared[s] = TRUE, !.ticks = @ + 1,
                                !.last = s, !.failed = FALSE]
          /\ UNCHANGED <<client, uv, registry>>
  /\ UNCHANGED <<prog, pc, timer, handlers, stats, sendsC, sendsU, nC, nU, env>>
  /\ UNCHANGED <<cop, cx, cy, cz>>

\* AudioBridge: the callback of the interval of start(); printStats writes to
\* the console only
BridgeStatsTick ==
  /\ prog = "bridge"
  /\ dsp.ticks < MaxTicks
  /\ dsp' = [dsp EXCEPT !.ticks = @ + 1, !.last = "every", !.failed = FALSE]
  /\ UNCHANGED srvVars
  /\ UNCHANGED <<cop, cx, cy, cz>>

KeepAliveNext ==
  \/ \E s \in Sessions :
       \/ StartupAccept(s)
       \/ StartupInternal(s)
       \/ StartupEnvironment(s)
       \/ \E failed \in BOOLEAN : MeetPingTick(s, failed)
  \/ BridgeStatsTick

SpecKeepAlive == KeepAliveInit /\ [][KeepAliveNext]_vars

\* 30 s have passed for the keep-alive of session s
KeepAliveTick(s) == dsp'.ticks # dsp.ticks /\ dsp'.last \in {s, "every"}

\* C33: on every keep-alive tick of a session whose client is open a ping is
\* issued to the client; a ping that cannot be written closes the session (the
\* client and the upstream socket leave the open state, the session leaves the
\* registry); and no ping is issued to a client that is not open.
C33_KeepAlive ==
  [][\A s \in Sessions :
       /\ (KeepAliveTick(s) /\ s \in registry /\ client[s] = "OPEN") =>
             dsp'.pings[s] = dsp.pings[s] + 1
       /\ (KeepAliveTick(s) /\ dsp'.failed) =>
             /\ client'[s] \in {"CLOSING", "CLOSED"}
             /\ uv'[s] \notin {"CONNECTING", "OPEN"}
             /\ s \notin registry'
       /\ client[s] # "OPEN" => dsp'.pings[s] = dsp.pings[s]]_vars

============================================================================
